---- MODULE Spec2Model ----
(***************************************************************************)
(* Model of the simulation engine of synthsense:                           *)
(*   backend/app/services/simulation_service.py  (SimulationService)       *)
(* run_simulation is modelled as a state machine: the chunk loop, the      *)
(* per-persona two-phase pipelines that asyncio.gather runs concurrently,  *)
(* the aggregation and the recommendation call.  Texts returned by the     *)
(* LLM are sequences of one-character strings, so that strip() and the     *)
(* regular-expression search act on characters.                            *)
(***************************************************************************)
EXTENDS Integers, Sequences, FiniteSets, TLC

(***************************************************************************)
(* Bounds of the model.                                                    *)
(***************************************************************************)
\* persona lists of length 0..MaxSmall are explored with every outcome pattern
MaxSmall == 3
\* persona lists of length batch_size .. batch_size+MaxExtra fill a chunk and more
MaxExtra == 1
\* result lists of length 0..MaxResults are fed to the aggregator directly
MaxResults == 4
\* the largest persona group in the database of the mutation
MaxGroup == 2
\* Phase 2 response texts of length 0..MaxText are fed to the rating parser
MaxText == 3
\* the LLM of a chat delivers 0..MaxFragments chunks
MaxFragments == 3
\* the number of generateCustomCohort requests of a user
MaxRequests == 2

(***************************************************************************)
(* Program constants.                                                      *)
(***************************************************************************)
\* self.batch_size = 10
batch_size == 10

\* allowed_fields of _calculate_property_distributions
allowed_fields == <<"age", "income_level", "gender", "relationship_status">>

\* the three sentiment buckets
Buckets == {"adopt", "mixed", "not"}

\* response_text of the degraded result
SentinelText ==
    <<"E", "r", "r", "o", "r", " ", "p", "r", "o", "c", "e", "s", "s", "i", "n", "g",
      " ", "p", "e", "r", "s", "o", "n", "a">>

\* score of the degraded result
SentinelScore == 3

\* the rating taken when the Phase 2 text has no character of the class [1-5]
DefaultScore == 3

Min(a, b) == IF a < b THEN a ELSE b
Max(a, b) == IF a > b THEN a ELSE b

(***************************************************************************)
(* Python values.  A value of a persona attribute is a string, a number,   *)
(* a list of strings or None.                                              *)
(***************************************************************************)
PyStr(s) == [kind |-> "str", s |-> s]
PyInt(n) == [kind |-> "int", n |-> n]
PyList(l) == [kind |-> "list", l |-> l]
PyNone == [kind |-> "none"]

\* ", ".join(xs) for a list of strings
RECURSIVE JoinComma(_)
JoinComma(xs) ==
    IF xs = <<>> THEN ""
    ELSE IF Len(xs) = 1 THEN xs[1]
    ELSE xs[1] \o ", " \o JoinComma(Tail(xs))

\* str(value), and ", ".join(str(v) for v in value) for a list
StrOf(value) ==
    CASE value.kind = "str" -> value.s
      [] value.kind = "int" -> ToString(value.n)
      [] value.kind = "list" -> JoinComma(value.l)
      [] value.kind = "none" -> "None"

\* dict.get(key, default) and dict[key] = v on a dict modelled as a function
DictGet(d, k, default) == IF k \in DOMAIN d THEN d[k] ELSE default
DictSet(d, k, v) == [x \in (DOMAIN d) \cup {k} |-> IF x = k THEN v ELSE d[x]]
EmptyDict == [x \in {} |-> 0]

(***************************************************************************)
(* Texts: response.content of an LLM call, a sequence of characters.       *)
(***************************************************************************)
Whitespace == {" ", "\n", "\t"}

\* str.lstrip() and str.rstrip()
RECURSIVE LStrip(_)
LStrip(t) == IF t # <<>> /\ Head(t) \in Whitespace THEN LStrip(Tail(t)) ELSE t
RECURSIVE RStrip(_)
RStrip(t) ==
    IF t # <<>> /\ t[Len(t)] \in Whitespace THEN RStrip(SubSeq(t, 1, Len(t) - 1)) ELSE t

\* str.strip()
Strip(t) == RStrip(LStrip(t))

\* the character class [1-5] of the regular expression
LikertClass == {"1", "2", "3", "4", "5"}

\* int(c) for a decimal digit character
IntOfChar(c) ==
    CASE c = "0" -> 0 [] c = "1" -> 1 [] c = "2" -> 2 [] c = "3" -> 3 [] c = "4" -> 4
      [] c = "5" -> 5 [] c = "6" -> 6 [] c = "7" -> 7 [] c = "8" -> 8 [] c = "9" -> 9

\* a variant of ScoreMatch: the rightmost match is taken
ScoreMatchLast(content) ==
    LET hits == {k \in 1..Len(content) : content[k] \in LikertClass}
    IN  IF hits = {} THEN 0 ELSE CHOOSE k \in hits : \A h \in hits : h <= k

\* re.search(r'[1-5]', content): position of the leftmost match, 0 for no match
ScoreMatch(content) ==
    LET hits == {k \in 1..Len(content) : content[k] \in LikertClass}
    IN  IF hits = {} THEN 0 ELSE CHOOSE k \in hits : \A h \in hits : k <= h

\* a variant of ParseScore: the class is any digit and the clamp is missing
ParseScoreAnyDigit(content) ==
    LET hits == {k \in 1..Len(content) :
                    content[k] \in {"0", "1", "2", "3", "4", "5", "6", "7", "8", "9"}}
    IN  IF hits = {} THEN DefaultScore
        ELSE IntOfChar(content[CHOOSE k \in hits : \A h \in hits : k <= h])

\* lines 62-66 of _call_llm_phase2: parse, default and clamp
ParseScore(content) ==
    LET score_match == ScoreMatch(content)
        score == IF score_match # 0 THEN IntOfChar(content[score_match]) ELSE DefaultScore
    IN  Max(1, Min(5, score))

(***************************************************************************)
(* _process_persona_complete: the two results a pipeline can return.       *)
(***************************************************************************)
GenuineResult(persona, text_response, score) ==
    [persona_id |-> persona.id, persona_data |-> persona.persona_data,
     response_text |-> text_response, score |-> score]

\* a variant of DegradedResult: the default score is the lowest rating
DegradedResultLow(persona) ==
    [persona_id |-> persona.id, persona_data |-> persona.persona_data,
     response_text |-> SentinelText, score |-> 1]

DegradedResult(persona) ==
    [persona_id |-> persona.id, persona_data |-> persona.persona_data,
     response_text |-> SentinelText, score |-> SentinelScore]

\* lines 68-90 as a function of the persona and of what its two calls do
ProcessPersonaComplete(persona, outcome) ==
    IF outcome.p1.raises \/ outcome.p2.raises
    THEN DegradedResult(persona)
    ELSE GenuineResult(persona, Strip(outcome.p1.content), ParseScore(outcome.p2.content))

(***************************************************************************)
(* _calculate_sentiment_breakdown                                          *)
(***************************************************************************)
\* a variant of IsAdopt: the comparison is strict
IsAdoptStrict(score) == score > 4

IsAdopt(score) == score >= 4
IsMixed(score) == score = 3
IsNot(score) == score <= 2

\* sum(1 for result in results if ...) for each of the three conditions
AdoptCount(results) == Cardinality({k \in 1..Len(results) : IsAdopt(results[k].score)})
MixedCount(results) == Cardinality({k \in 1..Len(results) : IsMixed(results[k].score)})
NotCount(results) == Cardinality({k \in 1..Len(results) : IsNot(results[k].score)})

\* a variant of PctTenths: integer division, count*100//total
PctTenthsFloorDiv(count, total) == ((count * 100) \div total) * 10

\* (count/total)*100 rounded to one decimal digit, in tenths of a percent.
\* Formatting rounds the binary value correctly, ties to even; for totals
\* below 80 the binary value rounds as the exact quotient does.
PctTenths(count, total) ==
    LET q == (count * 1000) \div total
        r == (count * 1000) % total
    IN  IF 2 * r < total THEN q
        ELSE IF 2 * r > total THEN q + 1
        ELSE IF q % 2 = 0 THEN q ELSE q + 1

\* the text of a value formatted with :.1f, from its tenths
Format1f(tenths) == ToString(tenths \div 10) \o "." \o ToString(tenths % 10)

FormatPct(count, total) == Format1f(PctTenths(count, total))

\* a variant of CalculateSentimentBreakdown: no guard for total == 0, the
\* division raises ZeroDivisionError
CalculateSentimentBreakdownNoGuard(results) ==
    LET adopt_count == AdoptCount(results)
        mixed_count == MixedCount(results)
        not_count == NotCount(results)
        total == Len(results)
    IN  IF total = 0
        THEN [raised |-> "ZeroDivisionError"]
        ELSE [adopt |-> [count |-> adopt_count, percentage |-> FormatPct(adopt_count, total)],
              mixed |-> [count |-> mixed_count, percentage |-> FormatPct(mixed_count, total)],
              not |-> [count |-> not_count, percentage |-> FormatPct(not_count, total)]]

CalculateSentimentBreakdown(results) ==
    LET adopt_count == AdoptCount(results)
        mixed_count == MixedCount(results)
        not_count == NotCount(results)
        total == Len(results)
    IN  IF total = 0
        THEN [adopt |-> [count |-> 0, percentage |-> "0.0"],
              mixed |-> [count |-> 0, percentage |-> "0.0"],
              not |-> [count |-> 0, percentage |-> "0.0"]]
        ELSE [adopt |-> [count |-> adopt_count, percentage |-> FormatPct(adopt_count, total)],
              mixed |-> [count |-> mixed_count, percentage |-> FormatPct(mixed_count, total)],
              not |-> [count |-> not_count, percentage |-> FormatPct(not_count, total)]]

(***************************************************************************)
(* _calculate_property_distributions                                       *)
(***************************************************************************)
\* a variant of SentimentOf: the comparison for adopt is strict
SentimentOfStrict(score) ==
    IF score > 4 THEN "adopt" ELSE IF score = 3 THEN "mixed" ELSE "not"

\* line 121
SentimentOf(score) == IF score >= 4 THEN "adopt" ELSE IF score = 3 THEN "mixed" ELSE "not"

\* lines 127-131: the stringified value of a field of a persona
FieldValue(persona_data, field) ==
    IF field \in DOMAIN persona_data THEN StrOf(persona_data[field]) ELSE "N/A"

\* lines 123-133: the inner loop over allowed_fields for one result
RECURSIVE CountFields(_, _, _)
CountFields(fields, persona_data, bucket) ==
    IF fields = <<>> THEN bucket
    ELSE LET field == Head(fields)
             counts == DictGet(bucket, field, EmptyDict)
             value == FieldValue(persona_data, field)
         IN  CountFields(Tail(fields), persona_data,
                 DictSet(bucket, field, DictSet(counts, value, DictGet(counts, value, 0) + 1)))

\* lines 118-133: the loop over the results
RECURSIVE CountResults(_, _)
CountResults(results, distributions) ==
    IF results = <<>> THEN distributions
    ELSE LET result == Head(results)
             sentiment == SentimentOf(result.score)
         IN  CountResults(Tail(results),
                 [distributions EXCEPT ![sentiment] =
                     CountFields(allowed_fields, result.persona_data, @)])

CalculatePropertyDistributions(results) ==
    CountResults(results, [b \in Buckets |-> EmptyDict])


(***************************************************************************)
(* _generate_recommendation                                                *)
(***************************************************************************)
\* the fixed fallback title and the default recommendation
FallbackTitle ==
    <<"E", "x", "p", "e", "r", "i", "m", "e", "n", "t">>

DefaultRecommendation ==
    <<"N", "o", " ", "r", "e", "c", "o", "m", "m", "e", "n", "d", "a", "t", "i", "o",
      "n", " ", "a", "v", "a", "i", "l", "a", "b", "l", "e">>

\* response texts of the recommendation call
RecObjectText ==
    <<"{", "\"", "s", "h", "o", "r", "t", "_", "t", "i", "t", "l", "e", "\"", ":", " ",
      "\"", "T", "\"", ",", " ", "\"", "r", "e", "c", "o", "m", "m", "e", "n", "d",
      "a", "t", "i", "o", "n", "\"", ":", " ", "\"", "R", "\"", "}">>

RecNoTitleText ==
    <<"{", "\"", "r", "e", "c", "o", "m", "m", "e", "n", "d", "a", "t", "i", "o", "n",
      "\"", ":", " ", "\"", "R", "\"", "}">>

RecProseText ==
    <<" ", "S", "h", "i", "p", " ", "i", "t", ".", "\n">>

RecArrayText ==
    <<"[", "\"", "T", "\"", ",", " ", "\"", "R", "\"", "]">>

RecNullText ==
    <<"n", "u", "l", "l">>

RecNumberText ==
    <<"4", "2">>

RecStringText ==
    <<"\"", "S", "h", "i", "p", " ", "i", "t", "\"">>

RecTruncatedText ==
    <<"{", "\"", "s", "h", "o", "r", "t", "_", "t", "i", "t", "l", "e", "\"", ":", " ",
      "\"", "T", "\"">>

\* json.loads on the texts above: the decoded value, or a JSONDecodeError
JsonLoads(text) ==
    CASE text = RecObjectText ->
            [t |-> "object", o |-> [short_title |-> <<"T">>, recommendation |-> <<"R">>]]
      [] text = RecNoTitleText -> [t |-> "object", o |-> [recommendation |-> <<"R">>]]
      [] text = RecArrayText -> [t |-> "array"]
      [] text = RecNullText -> [t |-> "null"]
      [] text = RecNumberText -> [t |-> "number"]
      [] text = RecStringText -> [t |-> "string"]
      [] OTHER -> [t |-> "JSONDecodeError"]

\* str(e) of the AttributeError that .get raises on a decoded value that is
\* not a dict
NoGetMessage(t) ==
    CASE t = "array" -> "'list' object has no attribute 'get'"
      [] t = "null" -> "'NoneType' object has no attribute 'get'"
      [] t = "number" -> "'int' object has no attribute 'get'"
      [] t = "string" -> "'str' object has no attribute 'get'"

\* a variant of GenerateRecommendation: the fallback keeps the raw text
\* with its surrounding whitespace
GenerateRecommendationRaw(response) ==
    IF response.raises THEN [raised |-> TRUE, message |-> response.message]
    ELSE LET recommendation_data == JsonLoads(Strip(response.content))
         IN  CASE recommendation_data.t = "object" ->
                    [raised |-> FALSE,
                     title |-> DictGet(recommendation_data.o, "short_title", FallbackTitle),
                     recommendation |-> DictGet(recommendation_data.o, "recommendation",
                                                DefaultRecommendation)]
               [] recommendation_data.t = "JSONDecodeError" ->
                    [raised |-> FALSE, title |-> FallbackTitle,
                     recommendation |-> response.content]
               [] OTHER -> [raised |-> TRUE, message |-> NoGetMessage(recommendation_data.t)]

\* lines 171-184: the value returned for a response, or the exception raised.
\* A decoded value that is not an object has no .get: AttributeError, which
\* the handler of JSONDecodeError does not catch.
GenerateRecommendation(response) ==
    IF response.raises THEN [raised |-> TRUE, message |-> response.message]
    ELSE LET recommendation_data == JsonLoads(Strip(response.content))
         IN  CASE recommendation_data.t = "object" ->
                    [raised |-> FALSE,
                     title |-> DictGet(recommendation_data.o, "short_title", FallbackTitle),
                     recommendation |-> DictGet(recommendation_data.o, "recommendation",
                                                DefaultRecommendation)]
               [] recommendation_data.t = "JSONDecodeError" ->
                    [raised |-> FALSE, title |-> FallbackTitle,
                     recommendation |-> Strip(response.content)]
               [] OTHER -> [raised |-> TRUE, message |-> NoGetMessage(recommendation_data.t)]


(***************************************************************************)
(* Inputs: persona attribute mappings and outcomes of the LLM calls.       *)
(***************************************************************************)
\* attribute mappings: as the persona producer emits them (sex, no gender),
\* with a gender and a list value, and with a None value and a field missing
PersonaKinds ==
    << [age |-> PyInt(31), income_level |-> PyStr("high"), sex |-> PyStr("male"),
        relationship_status |-> PyStr("single")],
       [age |-> PyInt(45), income_level |-> PyStr("middle"), gender |-> PyStr("female"),
        relationship_status |-> PyList(<<"married", "separated">>)],
       [age |-> PyInt(31), income_level |-> PyStr("high"), gender |-> PyNone] >>

Returns(content) == [raises |-> FALSE, content |-> content]
Raises(message) == [raises |-> TRUE, message |-> message]

\* the outcomes of the two calls of one persona: each returns a text or raises
Outcomes ==
    << [p1 |-> Returns(<<" ", "y", "e", "s", "\n">>), p2 |-> Returns(<<"5">>)],
       [p1 |-> Raises("ProviderError"), p2 |-> Returns(<<"4">>)],
       [p1 |-> Returns(<<"o", "k">>), p2 |-> Raises("ProviderError")],
       [p1 |-> Returns(<<"h", "m">>), p2 |-> Returns(<<"n", "o">>)],
       [p1 |-> Returns(<<"n", "o", " ">>), p2 |-> Returns(<<"7", "9">>)],
       [p1 |-> Returns(<<"n", "a", "h">>), p2 |-> Returns(<<"6", "a", "2", " ", "5">>)],
       [p1 |-> Returns(<<"y", "e", "s">>), p2 |-> Returns(<<"0", " ", "4", "1">>)] >>

\* the outcomes of the recommendation call
RecOutcomes ==
    {Returns(RecObjectText), Returns(RecNoTitleText), Returns(RecProseText),
     Returns(RecTruncatedText), Returns(RecArrayText), Returns(RecNullText),
     Returns(RecNumberText), Returns(RecStringText), Raises("ProviderError")}

\* the lengths of the persona lists
PersonaCounts == (0..MaxSmall) \cup (batch_size..(batch_size + MaxExtra))

\* persona k of a list: its identifier is k, its attributes cycle through the kinds
PersonaList(n, a) ==
    [k \in 1..n |-> [id |-> k,
                     persona_data |-> PersonaKinds[((k - 1 + a) % Len(PersonaKinds)) + 1]]]

\* the outcomes of the calls of persona k: an arithmetic progression through Outcomes
OutcomeList(n, s, b) ==
    [k \in 1..n |-> Outcomes[(((k - 1) * s + b) % Len(Outcomes)) + 1]]

(***************************************************************************)
(* app.config.settings and LLMFactory.create_llm.  An Optional[str] is the *)
(* empty sequence for None and a one-element sequence for a string.        *)
(***************************************************************************)
None == <<>>
Some(x) == <<x>>

\* str.lower() on the provider names
Lower(name) ==
    CASE name = "Gemini" -> "gemini"
      [] name = "OpenAI" -> "openai"
      [] OTHER -> name

\* not key: None and the empty string are falsy
Falsy(key) == key = None \/ key = Some("")

\* a variant of CreateLlm: the key is not checked when the client is built
CreateLlmLazy(st) ==
    IF Lower(st.LLM_PROVIDER) = "gemini"
    THEN [raised |-> FALSE, provider |-> "gemini", key |-> st.GEMINI_API_KEY]
    ELSE [raised |-> FALSE, provider |-> "openai", key |-> st.OPENAI_API_KEY]

\* LLMFactory.create_llm: the client, or the ValueError raised
CreateLlm(st) ==
    IF Lower(st.LLM_PROVIDER) = "gemini"
    THEN IF Falsy(st.GEMINI_API_KEY)
         THEN [raised |-> TRUE, message |-> "GEMINI_API_KEY is required for Gemini provider"]
         ELSE [raised |-> FALSE, provider |-> "gemini", key |-> st.GEMINI_API_KEY]
    ELSE IF Falsy(st.OPENAI_API_KEY)
         THEN [raised |-> TRUE, message |-> "OPENAI_API_KEY is required for OpenAI provider"]
         ELSE [raised |-> FALSE, provider |-> "openai", key |-> st.OPENAI_API_KEY]

\* the settings of a deployment
SettingsSet ==
    [LLM_PROVIDER : {"openai", "Gemini", "azure"},
     OPENAI_API_KEY : {None, Some(""), Some("sk-1")},
     GEMINI_API_KEY : {None, Some(""), Some("g-1")}]

\* config.py lines 16-18 with an OpenAI key in the environment
DefaultSettings ==
    [LLM_PROVIDER |-> "openai", OPENAI_API_KEY |-> Some("sk-1"), GEMINI_API_KEY |-> None]

(***************************************************************************)
(* format_persona_profile.  A persona_data that is not a mapping (the JSON *)
(* column holds any JSON value) is a Python value, here a list.            *)
(***************************************************************************)
IsDict(persona_data) == "kind" \notin DOMAIN persona_data

\* a persona_data that is a JSON array
NotADict == PyList(<<"age", "31">>)

\* line 45 of ai_service.py: persona_data.items() raises AttributeError
\* unless persona_data is a dict
FormatRaises(persona_data) == ~IsDict(persona_data)

FormatErrorMessage == "'list' object has no attribute 'items'"

(***************************************************************************)
(* State of one run of run_simulation.                                     *)
(***************************************************************************)
VARIABLES
    personas,                \* the argument personas
    llm,                     \* llm[id]: what the two calls of persona id will do
    pc,                      \* position of run_simulation
    i,                       \* the loop variable of the chunk loop
    batch,                   \* personas[i:i + batch_size] of the current chunk
    task_st,                 \* per coroutine of batch_promises: its position
    task_text,               \* per coroutine: text_response once Phase 1 returned
    task_result,             \* per coroutine: the value it returned
    all_results,             \* all_results
    sentiment_breakdown,     \* sentiment_breakdown
    property_distributions,  \* property_distributions
    result,                  \* the value run_simulation returned
    started,                 \* identifiers of the personas whose pipeline has started
    finished,                \* identifiers of the personas whose pipeline has returned
    p2_calls,                \* the Phase 2 calls issued: persona identifier and argument
    rec_response,            \* what the recommendation call did, once it completed
    request,                 \* runSimulation mutation: token and experiment_data
    settings,                \* app.config.settings
    db_jobs,                 \* rows of persona_generation_jobs
    db_personas,             \* rows of personas
    db_experiments,          \* committed rows of experiments
    db_responses,            \* committed rows of survey_responses
    mpc,                     \* position of the runSimulation mutation
    mlocal,                  \* its local variables user_id, personas, experiment
    mresult,                 \* what the mutation returned or raised
    cohort,                  \* generateCustomCohort requests and their background workflows
    chat                     \* the SSE stream of one chat request

\* the variables of the mutation and its environment
xvars == <<cohort, chat>>

mvars == <<request, settings, db_jobs, db_personas, db_experiments, db_responses,
           mpc, mlocal, mresult, xvars>>

vars == <<personas, llm, pc, i, batch, task_st, task_text, task_result, all_results,
          sentiment_breakdown, property_distributions, result, started, finished,
          p2_calls, rec_response, mvars>>

\* the variables of the service
svars == <<personas, llm, pc, i, batch, task_st, task_text, task_result, all_results,
           sentiment_breakdown, property_distributions, result, started, finished,
           p2_calls, rec_response>>

Unset == [unset |-> TRUE]
NoText == <<>>

\* no mutation is running: the service was constructed and is called directly
IdleMutation ==
    /\ request = Unset
    /\ settings = DefaultSettings
    /\ db_jobs = {}
    /\ db_personas = <<>>
    /\ db_experiments = <<>>
    /\ db_responses = <<>>
    /\ mpc = "none"
    /\ mlocal = Unset
    /\ mresult = Unset
    /\ cohort = Unset
    /\ chat = Unset

\* lines 194-197, with the arguments drawn from the input sets
Init ==
    /\ \E n \in PersonaCounts :
           IF n < batch_size
           THEN \E a \in 0..(Len(PersonaKinds) - 1), s \in 0..(Len(Outcomes) - 1),
                   b \in 0..(Len(Outcomes) - 1) :
                    /\ personas = PersonaList(n, a)
                    /\ llm = OutcomeList(n, s, b)
           ELSE /\ personas = PersonaList(n, 0)
                /\ llm = OutcomeList(n, 1, 0)
    /\ pc = "loop"
    /\ i = 0
    /\ batch = <<>>
    /\ task_st = <<>>
    /\ task_text = <<>>
    /\ task_result = <<>>
    /\ all_results = <<>>
    /\ sentiment_breakdown = Unset
    /\ property_distributions = Unset
    /\ result = Unset
    /\ started = {}
    /\ finished = {}
    /\ p2_calls = {}
    /\ rec_response = Unset
    /\ IdleMutation

\* a variant of ResponsesOf: the personas whose pipeline failed are left out
ResponsesOfGenuine(results) ==
    LET genuine == SelectSeq(results, LAMBDA r : r.response_text # SentinelText)
    IN  [k \in 1..Len(genuine) |->
            [persona_id |-> genuine[k].persona_id,
             persona_data |-> genuine[k].persona_data,
             response_text |-> genuine[k].response_text]]

\* lines 234-243
ResponsesOf(results) ==
    [k \in 1..Len(results) |->
        [persona_id |-> results[k].persona_id, persona_data |-> results[k].persona_data,
         response_text |-> results[k].response_text]]

\* a variant of ScoresOf: the scores are listed in the reverse order
ScoresOfReversed(results) ==
    [k \in 1..Len(results) |-> results[Len(results) + 1 - k].score]

\* line 243
ScoresOf(results) == [k \in 1..Len(results) |-> results[k].score]

\* lines 245-256; error_message None is the empty sequence
CompletedResult(recommendation_data) ==
    [personas |-> personas,
     responses |-> ResponsesOf(all_results),
     scores |-> ScoresOf(all_results),
     sentiment_breakdown |-> sentiment_breakdown,
     property_distributions |-> property_distributions,
     title |-> recommendation_data.title,
     recommendation |-> recommendation_data.recommendation,
     status |-> "completed",
     error_message |-> <<>>]

\* lines 258-270
ErrorResult(message) ==
    [personas |-> personas,
     responses |-> <<>>,
     scores |-> <<>>,
     sentiment_breakdown |-> EmptyDict,
     property_distributions |-> EmptyDict,
     title |-> FallbackTitle,
     recommendation |-> <<>>,
     status |-> "error",
     error_message |-> <<message>>]

\* a variant of BatchSlice: personas[i:], the slice has no upper end
BatchSliceRest(ps, lo) == SubSeq(ps, lo + 1, Len(ps))

\* a variant of BatchSlice: personas[i:i + batch_size - 1], one persona short
BatchSliceShort(ps, lo) == SubSeq(ps, lo + 1, Min(lo + batch_size - 1, Len(ps)))

\* a variant of BatchSlice: personas[i:i + batch_size + 1]
BatchSliceLong(ps, lo) == SubSeq(ps, lo + 1, Min(lo + batch_size + 1, Len(ps)))

\* line 201: personas[i:i + batch_size]
BatchSlice(ps, lo) == SubSeq(ps, lo + 1, Min(lo + batch_size, Len(ps)))

\* lines 200-215: one iteration of the chunk loop up to the await: the slice,
\* one coroutine per persona of the slice, and gather
\* when format_persona_profile raises for a persona of the slice (line 210)
\* the exception reaches the handler of run_simulation (lines 258-270)
BeginBatch ==
    /\ pc = "loop"
    /\ i < Len(personas)
    /\ batch' = BatchSlice(personas, i)
    /\ IF \E k \in 1..Len(batch') : FormatRaises(batch'[k].persona_data)
       THEN /\ result' = ErrorResult(FormatErrorMessage)
            /\ pc' = "done"
            /\ UNCHANGED <<task_st, task_text, task_result>>
       ELSE /\ task_st' = [k \in 1..Len(batch') |-> "created"]
            /\ task_text' = [k \in 1..Len(batch') |-> NoText]
            /\ task_result' = [k \in 1..Len(batch') |-> Unset]
            /\ pc' = "gather"
            /\ UNCHANGED result
    /\ UNCHANGED <<personas, llm, i, all_results, sentiment_breakdown,
                   property_distributions, started, finished, p2_calls, rec_response>>
    /\ UNCHANGED mvars

\* the event loop runs the first step of the tasks of gather in creation
\* order: task k enters _process_persona_complete and issues its Phase 1 call
StartTask(k) ==
    /\ pc = "gather"
    /\ k \in 1..Len(batch)
    /\ task_st[k] = "created"
    /\ \A j \in 1..(k - 1) : task_st[j] # "created"
    /\ task_st' = [task_st EXCEPT ![k] = "phase1"]
    /\ started' = started \cup {batch[k].id}
    /\ UNCHANGED <<personas, llm, pc, i, batch, task_text, task_result, all_results,
                   sentiment_breakdown, property_distributions, result, finished,
                   p2_calls, rec_response>>
    /\ UNCHANGED mvars

\* a variant of Completes: every call completes (as under a per-call timeout
\* that hands back the response)
CompletesAlways(outcome, phase) == TRUE

\* await self.llm.ainvoke(messages), lines 30 and 58: the coroutine resumes
\* only when the call completes; an outcome may name the call that never does
Completes(outcome, phase) ==
    ~("stalls" \in DOMAIN outcome /\ outcome.stalls = phase)

\* a variant of CallLlmPhase1: a failure of the call is swallowed and an
\* empty text is returned
CallLlmPhase1Swallow(response) ==
    IF response.raises
    THEN [raised |-> FALSE, text |-> NoText]
    ELSE [raised |-> FALSE, text |-> Strip(response.content)]

\* lines 32-33: what awaiting _call_llm_phase1 yields for a response of the
\* LLM: the exception, or the stripped content
CallLlmPhase1(response) ==
    IF response.raises
    THEN [raised |-> TRUE, message |-> response.message]
    ELSE [raised |-> FALSE, text |-> Strip(response.content)]

\* lines 72 and 83-90: the Phase 1 call of task k completes; when it returned,
\* the Phase 2 call is issued with its text (line 75)
Phase1Return(k) ==
    /\ pc = "gather"
    /\ k \in 1..Len(batch)
    /\ task_st[k] = "phase1"
    /\ Completes(llm[batch[k].id], "p1")
    /\ LET phase1 == CallLlmPhase1(llm[batch[k].id].p1)
       IN  IF phase1.raised
           THEN /\ task_st' = [task_st EXCEPT ![k] = "done"]
                /\ task_result' = [task_result EXCEPT ![k] = DegradedResult(batch[k])]
                /\ finished' = finished \cup {batch[k].id}
                /\ UNCHANGED <<task_text, p2_calls>>
           ELSE /\ task_st' = [task_st EXCEPT ![k] = "phase2"]
                /\ task_text' = [task_text EXCEPT ![k] = phase1.text]
                /\ p2_calls' = p2_calls \cup {[id |-> batch[k].id, text |-> phase1.text]}
                /\ UNCHANGED <<task_result, finished>>
    /\ UNCHANGED <<personas, llm, pc, i, batch, all_results, sentiment_breakdown,
                   property_distributions, result, started, rec_response>>
    /\ UNCHANGED mvars

\* a variant of LocalText: text_response is one variable shared by the
\* pipelines of the chunk, holding what the last of them wrote
SharedText(texts, k) ==
    LET written == {j \in DOMAIN texts : texts[j] # NoText}
    IN  IF written = {} THEN NoText
        ELSE texts[CHOOSE j \in written : \A h \in written : h <= j]

\* lines 72-80: text_response is a local variable of the coroutine of task k
LocalText(texts, k) == texts[k]

\* lines 75-90: the Phase 2 call of task k completes
Phase2Return(k) ==
    /\ pc = "gather"
    /\ k \in 1..Len(batch)
    /\ task_st[k] = "phase2"
    /\ Completes(llm[batch[k].id], "p2")
    /\ LET response == llm[batch[k].id].p2
       IN  task_result' = [task_result EXCEPT ![k] =
               IF response.raises
               THEN DegradedResult(batch[k])
               ELSE GenuineResult(batch[k], LocalText(task_text, k),
                                  ParseScore(response.content))]
    /\ task_st' = [task_st EXCEPT ![k] = "done"]
    /\ finished' = finished \cup {batch[k].id}
    /\ UNCHANGED <<personas, llm, pc, i, batch, task_text, all_results,
                   sentiment_breakdown, property_distributions, result, started,
                   p2_calls, rec_response>>
    /\ UNCHANGED mvars

\* a variant of NextIndex: the step is one too large
NextIndexSkip(lo) == lo + batch_size + 1

\* line 200: the step of range(0, total_personas, self.batch_size)
NextIndex(lo) == lo + batch_size

\* gather completes when every task of the chunk has returned
GatherDone(st) == \A k \in 1..Len(st) : st[k] = "done"

\* lines 215-220: gather returns the results in the order of batch_promises,
\* they are appended to all_results and the loop advances
GatherReturn ==
    /\ pc = "gather"
    /\ GatherDone(task_st)
    /\ all_results' = all_results \o task_result
    /\ i' = NextIndex(i)
    /\ pc' = "loop"
    /\ batch' = <<>>
    /\ task_st' = <<>>
    /\ task_text' = <<>>
    /\ task_result' = <<>>
    /\ UNCHANGED <<personas, llm, sentiment_breakdown, property_distributions,
                   result, started, finished, p2_calls, rec_response>>
    /\ UNCHANGED mvars

\* lines 222-231: after the loop, aggregate and issue the recommendation call
Aggregate ==
    /\ pc = "loop"
    /\ i >= Len(personas)
    /\ sentiment_breakdown' = CalculateSentimentBreakdown(all_results)
    /\ property_distributions' = CalculatePropertyDistributions(all_results)
    /\ pc' = "recommend"
    /\ UNCHANGED <<personas, llm, i, batch, task_st, task_text, task_result,
                   all_results, result, started, finished, p2_calls, rec_response>>
    /\ UNCHANGED mvars

\* lines 227-270: the recommendation call completes and run_simulation returns
RecommendReturn ==
    /\ pc = "recommend"
    /\ \E response \in RecOutcomes :
           LET recommendation_data == GenerateRecommendation(response)
           IN  /\ rec_response' = response
               /\ result' = IF recommendation_data.raised
                             THEN ErrorResult(recommendation_data.message)
                             ELSE CompletedResult(recommendation_data)
    /\ pc' = "done"
    /\ UNCHANGED <<personas, llm, i, batch, task_st, task_text, task_result,
                   all_results, sentiment_breakdown, property_distributions,
                   started, finished, p2_calls>>
    /\ UNCHANGED mvars

Next ==
    \/ BeginBatch
    \/ \E k \in DOMAIN task_st : StartTask(k)
    \/ \E k \in DOMAIN task_st : Phase1Return(k)
    \/ \E k \in DOMAIN task_st : Phase2Return(k)
    \/ GatherReturn
    \/ Aggregate
    \/ RecommendReturn

Spec == Init /\ [][Next]_vars


(***************************************************************************)
(* The aggregator on its own: run_simulation at the end of the chunk loop, *)
(* with every list of ratings of length 0..MaxResults in all_results.      *)
(***************************************************************************)
\* str(n) for a rating
CharOfInt(n) == CASE n = 1 -> "1" [] n = 2 -> "2" [] n = 3 -> "3" [] n = 4 -> "4" [] n = 5 -> "5"

InitAgg ==
    /\ \E n \in 0..MaxResults :
         \E a \in 0..(Len(PersonaKinds) - 1), ratings \in [1..n -> 1..5] :
            /\ personas = PersonaList(n, a)
            /\ llm = [k \in 1..n |-> [p1 |-> Returns(<<"o", "k">>),
                                      p2 |-> Returns(<<CharOfInt(ratings[k])>>)]]
            /\ all_results = [k \in 1..n |->
                                 GenuineResult(personas[k], <<"o", "k">>, ratings[k])]
            /\ i = IF n = 0 THEN 0 ELSE batch_size
            /\ started = 1..n
            /\ finished = 1..n
    /\ pc = "loop"
    /\ batch = <<>>
    /\ task_st = <<>>
    /\ task_text = <<>>
    /\ task_result = <<>>
    /\ sentiment_breakdown = Unset
    /\ property_distributions = Unset
    /\ result = Unset
    /\ p2_calls = {[id |-> k, text |-> <<"o", "k">>] : k \in 1..Len(personas)}
    /\ rec_response = Unset
    /\ IdleMutation

NextAgg ==
    \/ Aggregate
    \/ RecommendReturn

SpecAgg == InitAgg /\ [][NextAgg]_vars


(***************************************************************************)
(* Runs on persona lists that may hold a persona whose persona_data is not *)
(* a mapping: the JSON column of models/persona.py accepts any JSON value. *)
(***************************************************************************)
\* the list of PersonaList with the persona at position bad (if any) replaced
PersonaListWith(n, a, bad) ==
    [k \in 1..n |-> IF k = bad
                    THEN [id |-> k, persona_data |-> NotADict]
                    ELSE PersonaList(n, a)[k]]

InitBad ==
    /\ \E n \in (1..MaxSmall) \cup {batch_size + MaxExtra} :
           IF n < batch_size
           THEN \E a \in 0..(Len(PersonaKinds) - 1), b \in 0..(Len(Outcomes) - 1),
                   bad \in 0..n :
                    /\ personas = PersonaListWith(n, a, bad)
                    /\ llm = OutcomeList(n, 1, b)
           ELSE \E bad \in {1, n} :
                    /\ personas = PersonaListWith(n, 0, bad)
                    /\ llm = OutcomeList(n, 1, 0)
    /\ pc = "loop"
    /\ i = 0
    /\ batch = <<>>
    /\ task_st = <<>>
    /\ task_text = <<>>
    /\ task_result = <<>>
    /\ all_results = <<>>
    /\ sentiment_breakdown = Unset
    /\ property_distributions = Unset
    /\ result = Unset
    /\ started = {}
    /\ finished = {}
    /\ p2_calls = {}
    /\ rec_response = Unset
    /\ IdleMutation

SpecBad == InitBad /\ [][Next]_vars


(***************************************************************************)
(* The rating parser on its own: runs of one persona whose Phase 2 call    *)
(* returns each text of length 0..MaxText over ParseAlphabet.              *)
(***************************************************************************)
\* characters a Phase 2 response is made of: two ratings, digits outside the
\* scale, a letter and a blank
ParseAlphabet == {"1", "5", "0", "7", "a", " "}

ParseTexts == UNION {[1..n -> ParseAlphabet] : n \in 0..MaxText}

InitParse ==
    /\ personas = PersonaList(1, 0)
    /\ \E text \in ParseTexts :
           llm = << [p1 |-> Returns(<<"o", "k">>), p2 |-> Returns(text)] >>
    /\ pc = "loop"
    /\ i = 0
    /\ batch = <<>>
    /\ task_st = <<>>
    /\ task_text = <<>>
    /\ task_result = <<>>
    /\ all_results = <<>>
    /\ sentiment_breakdown = Unset
    /\ property_distributions = Unset
    /\ result = Unset
    /\ started = {}
    /\ finished = {}
    /\ p2_calls = {}
    /\ rec_response = Unset
    /\ IdleMutation

SpecParse == InitParse /\ [][Next]_vars


(***************************************************************************)
(* Runs in which one LLM call may never complete.  The event loop resumes  *)
(* every coroutine whose awaited call has completed, so a step that is     *)
(* possible is eventually taken.                                           *)
(***************************************************************************)
\* the outcomes of OutcomeList, with the call of persona id named by phase
\* never completing (id = 0: every call completes)
StallingList(n, s, b, id, phase) ==
    [k \in 1..n |->
        IF k = id
        THEN [p1 |-> OutcomeList(n, s, b)[k].p1, p2 |-> OutcomeList(n, s, b)[k].p2,
              stalls |-> phase]
        ELSE OutcomeList(n, s, b)[k]]

InitLive ==
    /\ \E n \in (1..MaxSmall) \cup {batch_size + MaxExtra} :
           IF n < batch_size
           THEN \E b \in 0..(Len(Outcomes) - 1), id \in 0..n, phase \in {"p1", "p2"} :
                    /\ personas = PersonaList(n, 0)
                    /\ llm = StallingList(n, 1, b, id, phase)
           ELSE \E id \in {0, 1, batch_size - 1, n}, phase \in {"p1", "p2"} :
                    /\ personas = PersonaList(n, 0)
                    /\ llm = StallingList(n, Len(Outcomes), 1, id, phase)
    /\ pc = "loop"
    /\ i = 0
    /\ batch = <<>>
    /\ task_st = <<>>
    /\ task_text = <<>>
    /\ task_result = <<>>
    /\ all_results = <<>>
    /\ sentiment_breakdown = Unset
    /\ property_distributions = Unset
    /\ result = Unset
    /\ started = {}
    /\ finished = {}
    /\ p2_calls = {}
    /\ rec_response = Unset
    /\ IdleMutation

SpecLive == InitLive /\ [][Next]_vars /\ WF_vars(Next)


(***************************************************************************)
(* Runs on personas as the persona producer emits them: the prompt of      *)
(* PersonaService._generate_single_batch names the fields of every         *)
(* persona and gives an example.                                           *)
(***************************************************************************)
\* persona_service.py lines 107-117
MandatoryFields ==
    {"persona_name", "age", "birth_city_country", "city_country", "education", "income",
     "income_level", "occupation", "relationship_status", "sex"}

\* the example of the prompt (lines 126-140) and a second persona of its shape
ProducerPersonas ==
    << [persona_name |-> PyStr("Alex Chen"), age |-> PyInt(28),
        birth_city_country |-> PyStr("San Francisco, USA"),
        city_country |-> PyStr("Seattle, USA"),
        education |-> PyStr("Bachelor's Degree in Computer Science"),
        income |-> PyStr("$95,000"), income_level |-> PyStr("high"),
        occupation |-> PyStr("Software Engineer"),
        relationship_status |-> PyStr("Single"), sex |-> PyStr("Male")],
       [persona_name |-> PyStr("Dana Ruiz"), age |-> PyInt(52),
        birth_city_country |-> PyStr("Lima, Peru"),
        city_country |-> PyStr("Madrid, Spain"),
        education |-> PyStr("High School"),
        income |-> PyStr("$28,000"), income_level |-> PyStr("low"),
        occupation |-> PyStr("Cook"),
        relationship_status |-> PyStr("Married"), sex |-> PyStr("Female")] >>

ProducerList(n, a) ==
    [k \in 1..n |-> [id |-> k,
                     persona_data |-> ProducerPersonas[((k - 1 + a) % Len(ProducerPersonas)) + 1]]]

InitProducer ==
    /\ \E n \in 1..MaxSmall :
         \E a \in 0..(Len(ProducerPersonas) - 1), s \in 0..(Len(Outcomes) - 1),
            b \in 0..(Len(Outcomes) - 1) :
                /\ personas = ProducerList(n, a)
                /\ llm = OutcomeList(n, s, b)
    /\ pc = "loop"
    /\ i = 0
    /\ batch = <<>>
    /\ task_st = <<>>
    /\ task_text = <<>>
    /\ task_result = <<>>
    /\ all_results = <<>>
    /\ sentiment_breakdown = Unset
    /\ property_distributions = Unset
    /\ result = Unset
    /\ started = {}
    /\ finished = {}
    /\ p2_calls = {}
    /\ rec_response = Unset
    /\ IdleMutation

SpecProducer == InitProducer /\ [][Next]_vars


(***************************************************************************)
(* The generateCustomCohort mutation of graphql/mutations/persona.py, the  *)
(* background task it starts and the workflow of persona_service.py.       *)
(* A group name is a sequence of pieces: the requested name, then the      *)
(* suffixes " (2)", " (3)", ... that the mutation appends.                 *)
(***************************************************************************)
\* persona_service.py lines 48 and 50, persona.py line 339
GenBatchSize == 10
ConcurrentBatches == 5
CohortTotal == 100

\* str.lower() of a piece, as ILIKE compares
Casefold(piece) == IF piece = "Moms" THEN "moms" ELSE piece

\* persona_group ILIKE '<name>%': name is a prefix, case ignored
ILikePrefix(group, name) ==
    /\ Len(name) <= Len(group)
    /\ \A k \in 1..Len(name) : Casefold(group[k]) = Casefold(name[k])

\* f"{name} ({counter})"
CounterSuffix(counter) ==
    CASE counter = 2 -> " (2)" [] counter = 3 -> " (3)" [] counter = 4 -> " (4)"
      [] counter = 5 -> " (5)" [] OTHER -> " (n)"

WithCounter(name, counter) == Append(name, CounterSuffix(counter))

\* lines 50-52: the first counter from 2 whose name is not taken
RECURSIVE NextCounter(_, _, _)
NextCounter(name, existing_names, counter) ==
    IF WithCounter(name, counter) \in existing_names
    THEN NextCounter(name, existing_names, counter + 1)
    ELSE counter

\* lines 45-53: the name given to the new job
FinalPersonaGroup(name, existing_names) ==
    IF existing_names # {} /\ name \in existing_names
    THEN WithCounter(name, NextCounter(name, existing_names, 2))
    ELSE name

\* lines 35-41: the names of the jobs of the user that the query returns
ExistingNames(jobs, user_id, name) ==
    {j.persona_group : j \in {x \in jobs : x.user_id = user_id
                                           /\ ILikePrefix(x.persona_group, name)}}

\* lines 56-65: the row of the new job; uuid4 gives an unused identifier
NewJob(jobs, user_id, group) ==
    [id |-> Cardinality(jobs) + 1, persona_group |-> group, user_id |-> user_id,
     status |-> "generating", personas_generated |-> 0, error_message |-> None]

\* what the LLM call of a batch does
GenOutcomes ==
    {Raises("ProviderError"),
     Returns(<<"[", "{", "}", "]">>),
     Returns(<<"n", "o">>)}

\* persona_service.py lines 149-178: content is a str and str has no method
\* match, so line 156 raises AttributeError for every response; the handler
\* of line 176 catches JSONDecodeError and ValueError only
GenerateSingleBatch(response) ==
    IF response.raises THEN [raised |-> TRUE, message |-> response.message]
    ELSE [raised |-> TRUE, message |-> "'str' object has no attribute 'match'"]

\* lines 54-55 of persona_service.py: the number of rounds
Rounds(total_personas) ==
    ((total_personas \div GenBatchSize) + ConcurrentBatches - 1) \div ConcurrentBatches

\* line 60: the batches of a round
BatchesInRound(total_personas, round_num) ==
    Min(ConcurrentBatches, (total_personas \div GenBatchSize) - round_num * ConcurrentBatches)

\* lines 215-224: the state the workflow starts from
InitialState ==
    [status |-> "generating", error_message |-> None, personas_generated |-> 0,
     total_personas |-> CohortTotal]

\* lines 180-183: _complete_job
CompleteJob(state) == [state EXCEPT !.status = "completed"]

\* the requests a client sends: the user of the context and the group name
CohortNames == {<<"Moms">>, <<"moms">>, <<"Moms", " (2)">>}

CohortRequests ==
    {[user |-> Some("u1"), persona_group |-> name] : name \in CohortNames}
        \cup {[user |-> None, persona_group |-> <<"Moms">>]}

\* the jobs of the user before the requests
EarlierJobs ==
    { {},
      {[id |-> 1, persona_group |-> <<"Moms">>, user_id |-> Some("u1"),
        status |-> "completed", personas_generated |-> 100, error_message |-> None]} }

InitCohort ==
    /\ \E reqs \in [1..MaxRequests -> CohortRequests] :
           cohort = [req |-> [r \in 1..MaxRequests |->
                                 [pc |-> "start", user |-> reqs[r].user,
                                  persona_group |-> reqs[r].persona_group,
                                  existing_names |-> {}, job_id |-> 0]],
                     wf |-> <<>>]
    /\ db_jobs \in EarlierJobs
    /\ settings \in {DefaultSettings,
                     [LLM_PROVIDER |-> "openai", OPENAI_API_KEY |-> None,
                      GEMINI_API_KEY |-> None]}
    /\ request = Unset
    /\ db_personas = <<>>
    /\ db_experiments = <<>>
    /\ db_responses = <<>>
    /\ mpc = "none"
    /\ mlocal = Unset
    /\ mresult = Unset
    /\ chat = Unset
    /\ personas = <<>>
    /\ llm = <<>>
    /\ pc = "idle"
    /\ i = 0
    /\ batch = <<>>
    /\ task_st = <<>>
    /\ task_text = <<>>
    /\ task_result = <<>>
    /\ all_results = <<>>
    /\ sentiment_breakdown = Unset
    /\ property_distributions = Unset
    /\ result = Unset
    /\ started = {}
    /\ finished = {}
    /\ p2_calls = {}
    /\ rec_response = Unset

\* what the cohort actions leave alone
CohortFrame ==
    /\ UNCHANGED <<request, settings, db_personas, db_experiments, db_responses,
                   mpc, mlocal, mresult, chat>>
    /\ UNCHANGED svars

\* persona.py lines 29-41: the user is read from the context and the names
\* of their jobs are selected
CohortSelect(r) ==
    /\ cohort.req[r].pc = "start"
    /\ IF cohort.req[r].user = None
       THEN cohort' = [cohort EXCEPT !.req[r].pc = "raised"]
       ELSE cohort' = [cohort EXCEPT
                          !.req[r].pc = "selected",
                          !.req[r].existing_names =
                              ExistingNames(db_jobs, cohort.req[r].user,
                                            cohort.req[r].persona_group)]
    /\ UNCHANGED db_jobs
    /\ CohortFrame

\* persona.py lines 43-97: the name is chosen, the job is committed, the
\* service is constructed and the background task is created
CohortInsert(r) ==
    /\ cohort.req[r].pc = "selected"
    /\ LET group == FinalPersonaGroup(cohort.req[r].persona_group,
                                      cohort.req[r].existing_names)
           job == NewJob(db_jobs, cohort.req[r].user, group)
       IN  /\ db_jobs' = db_jobs \cup {job}
           /\ IF CreateLlm(settings).raised
              THEN cohort' = [cohort EXCEPT !.req[r].pc = "raised",
                                            !.req[r].job_id = job.id]
              ELSE cohort' = [cohort EXCEPT
                                 !.req[r].pc = "returned",
                                 !.req[r].job_id = job.id,
                                 !.wf = Append(@, [job_id |-> job.id, pc |-> "created",
                                                   round_num |-> 0, pending |-> {},
                                                   all_personas |-> 0, failed |-> FALSE,
                                                   state |-> InitialState])]
    /\ CohortFrame

\* persona_service.py lines 45-67: the workflow enters _generate_personas_batch
\* and issues the calls of the first round
GenStartRound(w) ==
    /\ cohort.wf[w].pc = "created"
    /\ LET state == cohort.wf[w].state
       IN  IF Rounds(state.total_personas) = 0
           THEN cohort' = [cohort EXCEPT
                              !.wf[w].pc = "generated",
                              !.wf[w].state = [state EXCEPT !.status = "personas_generated"]]
           ELSE cohort' = [cohort EXCEPT
                              !.wf[w].pc = "gathering",
                              !.wf[w].pending = 1..BatchesInRound(state.total_personas, 0)]
    /\ UNCHANGED db_jobs
    /\ CohortFrame

\* persona_service.py lines 72-96: a call of the round completes.  gather
\* re-raises the first exception of a batch and the handler of line 92 stores
\* it; when the last batch of a round returns, its personas are collected
\* and the next round starts or the node ends
GenBatchReturn(w, b) ==
    /\ cohort.wf[w].pc = "gathering"
    /\ b \in cohort.wf[w].pending
    /\ \E response \in GenOutcomes :
         LET wf == cohort.wf[w]
             state == wf.state
             personas_of_batch == GenerateSingleBatch(response)
             round_done == wf.pending = {b}
             collected == wf.all_personas
                            + BatchesInRound(state.total_personas, wf.round_num) * GenBatchSize
         IN  IF personas_of_batch.raised
             THEN cohort' = [cohort EXCEPT
                                !.wf[w].pc = "generated",
                                !.wf[w].pending = {},
                                !.wf[w].failed = TRUE,
                                !.wf[w].state =
                                    [state EXCEPT !.status = "error",
                                                  !.error_message =
                                                      Some(personas_of_batch.message)]]
             ELSE IF ~round_done
             THEN cohort' = [cohort EXCEPT !.wf[w].pending = @ \ {b}]
             ELSE IF wf.round_num + 1 < Rounds(state.total_personas)
             THEN cohort' = [cohort EXCEPT
                                !.wf[w].round_num = @ + 1,
                                !.wf[w].all_personas = collected,
                                !.wf[w].pending =
                                    1..BatchesInRound(state.total_personas, wf.round_num + 1),
                                !.wf[w].state = [state EXCEPT !.personas_generated = collected]]
             ELSE cohort' = [cohort EXCEPT
                                !.wf[w].pc = "generated",
                                !.wf[w].pending = {},
                                !.wf[w].all_personas = Min(collected, state.total_personas),
                                !.wf[w].state =
                                    [state EXCEPT
                                        !.status = "personas_generated",
                                        !.personas_generated =
                                            Min(collected, state.total_personas)]]
    /\ UNCHANGED db_jobs
    /\ CohortFrame

\* persona_service.py lines 40-41 and 180-183: the edge to complete_job is
\* unconditional
GenCompleteJob(w) ==
    /\ cohort.wf[w].pc = "generated"
    /\ cohort' = [cohort EXCEPT !.wf[w].pc = "ended",
                                !.wf[w].state = CompleteJob(@)]
    /\ UNCHANGED db_jobs
    /\ CohortFrame

\* persona.py lines 335-357: the background task stores the final state
GenStore(w) ==
    /\ cohort.wf[w].pc = "ended"
    /\ LET final == cohort.wf[w].state
       IN  db_jobs' = {IF j.id = cohort.wf[w].job_id
                       THEN [j EXCEPT !.status = final.status,
                                      !.personas_generated = final.personas_generated,
                                      !.error_message = IF final.status = "error"
                                                        THEN final.error_message ELSE @]
                       ELSE j : j \in db_jobs}
    /\ cohort' = [cohort EXCEPT !.wf[w].pc = "stored"]
    /\ CohortFrame

\* persona.py lines 359-372 with persona_service.py lines 194-203: the
\* connection pool or the checkpointer raises before the workflow runs
GenSetupFails(w) ==
    /\ cohort.wf[w].pc = "created"
    /\ db_jobs' = {IF j.id = cohort.wf[w].job_id
                   THEN [j EXCEPT !.status = "failed",
                                  !.error_message = Some("connection failed")]
                   ELSE j : j \in db_jobs}
    /\ cohort' = [cohort EXCEPT !.wf[w].pc = "aborted"]
    /\ CohortFrame

NextCohort ==
    \/ \E r \in 1..MaxRequests : CohortSelect(r)
    \/ \E r \in 1..MaxRequests : CohortInsert(r)
    \/ \E w \in DOMAIN cohort.wf : GenStartRound(w)
    \/ \E w \in DOMAIN cohort.wf : \E b \in 1..ConcurrentBatches : GenBatchReturn(w, b)
    \/ \E w \in DOMAIN cohort.wf : GenCompleteJob(w)
    \/ \E w \in DOMAIN cohort.wf : GenStore(w)
    \/ \E w \in DOMAIN cohort.wf : GenSetupFails(w)

SpecCohort == InitCohort /\ [][NextCohort]_vars


(***************************************************************************)
(* The runSimulation mutation of graphql/mutations/simulation.py, with     *)
(* the token decoding of auth/jwt_handler.py and the database rows.        *)
(***************************************************************************)
\* the tokens a client sends: kind says what jwt.decode makes of the token
Tokens ==
    { [kind |-> "signed", claims |-> [sub |-> Some("u1"), exp |-> Some("later")]],
      [kind |-> "signed", claims |-> [exp |-> Some("later")]],
      [kind |-> "signed", claims |-> [sub |-> Some(""), exp |-> Some("later")]],
      [kind |-> "expired", claims |-> [sub |-> Some("u1"), exp |-> Some("before")]],
      [kind |-> "forged", claims |-> [sub |-> Some("u1"), exp |-> Some("later")]],
      [kind |-> "garbage", claims |-> EmptyDict] }

\* a variant of DecodeToken: the claims are read without verification
DecodeTokenUnverified(token) ==
    IF token.kind = "garbage" THEN None ELSE token.claims

\* decode_token: the payload, or None when jwt.decode raises JWTError
\* (bad signature, expired, not a JWT)
DecodeToken(token) ==
    IF token.kind = "signed" THEN token.claims ELSE None

\* not payload: None and the empty dict are falsy
FalsyDict(payload) == DOMAIN payload = {}

\* str(e) of the exceptions of the mutation, as the pieces of the f-string
InvalidToken == <<"Invalid token">>
GroupNotFound(group) == <<"Persona group '", group, "' not found">>
NoPersonasFound(group) == <<"No personas found for group '", group, "'">>
MultipleResultsFound == <<"Multiple rows were found when one or none was required">>

\* line 138: the exception that leaves the mutation
SimulationFailed(message) == [raised |-> TRUE, message |-> <<"Simulation failed: ">> \o message]

\* lines 44-53: the jobs of the requested group that the user may use
MatchingJobs(jobs, group, user_id) ==
    {j \in jobs : j.persona_group = group /\ (j.user_id = user_id \/ j.user_id = None)}

\* lines 58-61: the personas of a job, in table order
PersonasOfJob(rows, job_id) ==
    SelectSeq(rows, LAMBDA r : r.generation_job_id = job_id)

\* str(persona.id): the identifier the service and the oracle know
UuidStr(id) == id.uuid

\* lines 83-89
PersonasData(rows) ==
    [k \in 1..Len(rows) |-> [id |-> UuidStr(rows[k].id),
                             persona_data |-> rows[k].persona_data]]

\* a variant of SurveyRows: the personas whose pipeline failed get no row
SurveyRowsGenuine(res, experiment_id, user_id) ==
    LET pairs == SelectSeq([k \in 1..Min(Len(res.responses), Len(res.scores)) |->
                               [r |-> res.responses[k], score |-> res.scores[k]]],
                           LAMBDA pr : pr.r.response_text # SentinelText)
    IN  [k \in 1..Len(pairs) |->
            [experiment_id |-> experiment_id,
             persona_id |-> pairs[k].r.persona_id,
             user_id |-> user_id,
             response_text |-> pairs[k].r.response_text,
             likert |-> pairs[k].score,
             response_metadata |-> [persona_data |-> pairs[k].r.persona_data]]]

\* lines 108-117: one row per pair of zip(result["responses"], result["scores"])
SurveyRows(res, experiment_id, user_id) ==
    [k \in 1..Min(Len(res.responses), Len(res.scores)) |->
        [experiment_id |-> experiment_id,
         persona_id |-> res.responses[k].persona_id,
         user_id |-> user_id,
         response_text |-> res.responses[k].response_text,
         likert |-> res.scores[k],
         response_metadata |-> [persona_data |-> res.responses[k].persona_data]]]

\* the group the requests name, and the tables before the mutation runs
RequestedGroup == "General Audience"

OwnJob == [id |-> 1, persona_group |-> RequestedGroup, user_id |-> Some("u1")]
DefaultJob == [id |-> 1, persona_group |-> RequestedGroup, user_id |-> None]
SecondJob == [id |-> 2, persona_group |-> RequestedGroup, user_id |-> None]
OtherJob == [id |-> 3, persona_group |-> "Students", user_id |-> Some("u1")]

JobTables ==
    { {OtherJob}, {OwnJob, OtherJob}, {DefaultJob, OtherJob}, {OwnJob, SecondJob, OtherJob} }

\* n personas of job 1 (identifiers 1..n) followed by one persona of job 3
PersonaTable(n, a) ==
    [k \in 1..n |-> [id |-> [uuid |-> k], generation_job_id |-> 1,
                     persona_data |-> PersonaList(n, a)[k].persona_data]]
    \o << [id |-> [uuid |-> 0], generation_job_id |-> 3,
           persona_data |-> PersonaKinds[1]] >>

\* an experiment of an earlier run and its one response
EarlierExperiments ==
    << [id |-> 1, user_id |-> "u1", idea_text |-> "idea", question_text |-> "question",
        status |-> "completed", persona_count |-> 1, title |-> FallbackTitle,
        results_summary |-> Unset, recommended_next_step |-> <<"R">>] >>

EarlierResponses ==
    << [experiment_id |-> 1, persona_id |-> 0, user_id |-> "u1",
        response_text |-> <<"o", "k">>, likert |-> 4,
        response_metadata |-> [persona_data |-> PersonaKinds[1]]] >>

InitMut ==
    /\ \E token \in Tokens :
           request = [token |-> token,
                      experiment_data |-> [idea_text |-> "idea", question_text |-> "question",
                                           persona_group |-> RequestedGroup]]
    /\ settings \in SettingsSet
    /\ db_jobs \in JobTables
    /\ \E n \in 0..MaxGroup :
         \E s \in {0, 1}, b \in 0..(Len(Outcomes) - 1) :
            /\ db_personas = PersonaTable(n, 0)
            /\ llm = OutcomeList(n, s, b)
    /\ db_experiments = EarlierExperiments
    /\ db_responses = EarlierResponses
    /\ mpc = "start"
    /\ mlocal = Unset
    /\ mresult = Unset
    /\ cohort = Unset
    /\ chat = Unset
    /\ personas = <<>>
    /\ pc = "idle"
    /\ i = 0
    /\ batch = <<>>
    /\ task_st = <<>>
    /\ task_text = <<>>
    /\ task_result = <<>>
    /\ all_results = <<>>
    /\ sentiment_breakdown = Unset
    /\ property_distributions = Unset
    /\ result = Unset
    /\ started = {}
    /\ finished = {}
    /\ p2_calls = {}
    /\ rec_response = Unset


\* lines 28-37: the token is decoded and the user id read from the payload
MutAuthenticate ==
    /\ mpc = "start"
    /\ LET payload == DecodeToken(request.token)
       IN  IF FalsyDict(payload)
           THEN /\ mresult' = SimulationFailed(InvalidToken)
                /\ mpc' = "raised"
                /\ UNCHANGED mlocal
           ELSE LET user_id == DictGet(payload, "sub", None)
                IN  IF Falsy(user_id)
                    THEN /\ mresult' = SimulationFailed(InvalidToken)
                         /\ mpc' = "raised"
                         /\ UNCHANGED mlocal
                    ELSE /\ mlocal' = [user_id |-> user_id]
                         /\ mpc' = "authenticated"
                         /\ UNCHANGED mresult
    /\ UNCHANGED <<request, settings, db_jobs, db_personas, db_experiments, db_responses>>
    /\ UNCHANGED svars
    /\ UNCHANGED xvars

\* lines 40-64: the job of the group and its personas are loaded
MutLoadGroup ==
    /\ mpc = "authenticated"
    /\ LET group == request.experiment_data.persona_group
           jobs == MatchingJobs(db_jobs, group, mlocal.user_id)
       IN  IF Cardinality(jobs) > 1
           THEN /\ mresult' = SimulationFailed(MultipleResultsFound)
                /\ mpc' = "raised"
                /\ UNCHANGED mlocal
           ELSE IF jobs = {}
           THEN /\ mresult' = SimulationFailed(GroupNotFound(group))
                /\ mpc' = "raised"
                /\ UNCHANGED mlocal
           ELSE LET job == CHOOSE j \in jobs : TRUE
                    rows == PersonasOfJob(db_personas, job.id)
                IN  IF rows = <<>>
                    THEN /\ mresult' = SimulationFailed(NoPersonasFound(group))
                         /\ mpc' = "raised"
                         /\ UNCHANGED mlocal
                    ELSE /\ mlocal' = [user_id |-> mlocal.user_id, personas |-> rows]
                         /\ mpc' = "loaded"
                         /\ UNCHANGED mresult
    /\ UNCHANGED <<request, settings, db_jobs, db_personas, db_experiments, db_responses>>
    /\ UNCHANGED svars
    /\ UNCHANGED xvars

\* lines 66-77: the experiment row is added and committed
MutCreateExperiment ==
    /\ mpc = "loaded"
    /\ LET experiment == [id |-> Len(db_experiments) + 1,
                          user_id |-> mlocal.user_id[1],
                          idea_text |-> request.experiment_data.idea_text,
                          question_text |-> request.experiment_data.question_text,
                          status |-> "in_progress",
                          persona_count |-> Len(mlocal.personas),
                          title |-> None,
                          results_summary |-> Unset,
                          recommended_next_step |-> None]
       IN  /\ db_experiments' = Append(db_experiments, experiment)
           /\ mlocal' = [user_id |-> mlocal.user_id, personas |-> mlocal.personas,
                         experiment_id |-> experiment.id]
    /\ mpc' = "created"
    /\ UNCHANGED <<request, settings, db_jobs, db_personas, db_responses, mresult>>
    /\ UNCHANGED svars
    /\ UNCHANGED xvars

\* lines 80-96: the service is constructed (simulation_service.py lines 12-14)
\* and run_simulation is called (lines 194-197); a ValueError of the
\* constructor is raised before the inner try and wrapped at line 138
MutCallService ==
    /\ mpc = "created"
    /\ LET created == CreateLlm(settings)
       IN  IF created.raised
           THEN /\ mresult' = SimulationFailed(<<created.message>>)
                /\ mpc' = "raised"
                /\ UNCHANGED <<personas, pc>>
           ELSE /\ personas' = PersonasData(mlocal.personas)
                /\ pc' = "loop"
                /\ mpc' = "running"
                /\ UNCHANGED mresult
    /\ UNCHANGED <<request, settings, db_jobs, db_personas, db_experiments, db_responses,
                   mlocal>>
    /\ UNCHANGED <<llm, i, batch, task_st, task_text, task_result, all_results,
                   sentiment_breakdown, property_distributions, result, started, finished,
                   p2_calls, rec_response>>
    /\ UNCHANGED xvars

\* lines 98-130: the result is stored on the experiment, one SurveyResponse
\* is added per response, the session is committed and the result returned
MutStore ==
    /\ mpc = "running"
    /\ pc = "done"
    /\ db_experiments' =
           [db_experiments EXCEPT ![mlocal.experiment_id] =
               [@ EXCEPT !.status = result.status,
                         !.title = Some(result.title),
                         !.results_summary =
                             [sentiment_breakdown |-> result.sentiment_breakdown,
                              property_distributions |-> result.property_distributions],
                         !.recommended_next_step = Some(result.recommendation)]]
    /\ db_responses' = db_responses
                           \o SurveyRows(result, mlocal.experiment_id, mlocal.user_id[1])
    /\ mresult' = [raised |-> FALSE,
                   experiment_id |-> mlocal.experiment_id,
                   status |-> result.status,
                   total_processed |-> Len(result.responses),
                   total_personas |-> Len(mlocal.personas),
                   sentiment_breakdown |-> result.sentiment_breakdown,
                   property_distributions |-> result.property_distributions,
                   recommendation |-> result.recommendation,
                   title |-> result.title]
    /\ mpc' = "returned"
    /\ UNCHANGED <<request, settings, db_jobs, db_personas, mlocal>>
    /\ UNCHANGED svars
    /\ UNCHANGED xvars

NextMut ==
    \/ MutAuthenticate
    \/ MutLoadGroup
    \/ MutCreateExperiment
    \/ MutCallService
    \/ MutStore
    \/ BeginBatch
    \/ \E k \in DOMAIN task_st : StartTask(k)
    \/ \E k \in DOMAIN task_st : Phase1Return(k)
    \/ \E k \in DOMAIN task_st : Phase2Return(k)
    \/ GatherReturn
    \/ Aggregate
    \/ RecommendReturn

SpecMut == InitMut /\ [][NextMut]_vars


(***************************************************************************)
(* Properties of the batch scheduler, checked under Spec.                  *)
(***************************************************************************)
\* the chunk loop has ended: every chunk was gathered
BatchPhaseDone == pc \in {"recommend", "done"} \/ (pc = "loop" /\ i >= Len(personas))

\* the chunk of the persona list that holds the persona with identifier id
ChunkOf(id) == (id - 1) \div batch_size

Failed(id) == llm[id].p1.raises \/ llm[id].p2.raises

\* C1: for a persona list of length N >= 1, once the batch phase has finished
\* all_results has exactly N entries and entry k carries the identifier of
\* input persona k, whatever the LLM calls did; the responses of a completed
\* result keep that order.
C1_OrderPreserved ==
    (Len(personas) >= 1 /\ BatchPhaseDone) =>
        /\ Len(all_results) = Len(personas)
        /\ \A k \in 1..Len(personas) : all_results[k].persona_id = personas[k].id
        /\ (pc = "done" /\ result.status = "completed") =>
               /\ Len(result.responses) = Len(personas)
               /\ \A k \in 1..Len(personas) :
                      result.responses[k].persona_id = personas[k].id

C1_Witness ==
    /\ BatchPhaseDone
    /\ Len(personas) > batch_size
    /\ Len(all_results) = Len(personas)
    /\ \E k \in 1..Len(all_results) : all_results[k].response_text = SentinelText
    /\ \E k \in 1..Len(all_results) : all_results[k].response_text # SentinelText

\* C2: a persona whose Phase 1 or Phase 2 call raises gets the sentinel text
\* with score 3; every other persona gets the result its own two calls
\* determine (its stripped Phase 1 text and the rating parsed from its Phase 2
\* text); and a run fails only after its batch phase and aggregation are over.
C2_FailureIsolated ==
    /\ \A k \in 1..Len(all_results) :
           LET r == all_results[k]
           IN  IF Failed(r.persona_id)
               THEN r.response_text = SentinelText /\ r.score = 3
               ELSE /\ r.response_text = Strip(llm[r.persona_id].p1.content)
                    /\ r.score = ParseScore(llm[r.persona_id].p2.content)
    /\ \A k \in 1..Len(task_st) :
           (task_st[k] = "done" /\ Failed(batch[k].id)) =>
               (task_result[k].response_text = SentinelText /\ task_result[k].score = 3)
    /\ (pc = "done" /\ result.status # "completed") => sentiment_breakdown # Unset

C2_Witness ==
    /\ pc = "recommend"
    /\ \E k \in 1..Len(all_results) :
           /\ llm[k].p1.raises
           /\ all_results[k].response_text = SentinelText
           /\ all_results[k].score = 3
    /\ \E k \in 1..Len(all_results) :
           /\ ~llm[k].p1.raises /\ llm[k].p2.raises
           /\ all_results[k].response_text = SentinelText
    /\ \E k \in 1..Len(all_results) : ~Failed(k) /\ all_results[k].score = 5

\* C3: at most batch_size persona pipelines are started and not yet finished.
C3_BoundedInFlight == Cardinality(started \ finished) <= batch_size

C3_Witness == Cardinality(started \ finished) = batch_size

\* C4: a pipeline of a chunk is started only when every pipeline of every
\* earlier chunk has finished.
C4_ChunksSequential ==
    \A p \in started :
        \A q \in 1..Len(personas) : ChunkOf(q) < ChunkOf(p) => q \in finished

C4_Witness ==
    /\ \E p \in started \ finished : ChunkOf(p) = 1
    /\ \A q \in 1..batch_size : q \in finished

\* C5: every rating held by the run (returned by a pipeline, collected in
\* all_results, reported in the scores of the result) is an integer in 1..5.
C5_RatingInRange ==
    /\ \A k \in 1..Len(all_results) : all_results[k].score \in 1..5
    /\ \A k \in 1..Len(task_st) : task_st[k] = "done" => task_result[k].score \in 1..5
    /\ (pc = "done") => \A k \in 1..Len(result.scores) : result.scores[k] \in 1..5

C5_Witness ==
    /\ pc = "done"
    /\ result.status = "completed"
    /\ \E k \in 1..Len(personas) :
           /\ ~Failed(k) /\ llm[k].p2.content = <<"7", "9">> /\ result.scores[k] = 3
    /\ \E k \in 1..Len(personas) :
           /\ ~Failed(k) /\ llm[k].p2.content = <<"6", "a", "2", " ", "5">>
           /\ result.scores[k] = 2
    /\ \E k \in 1..Len(personas) :
           /\ ~Failed(k) /\ llm[k].p2.content = <<"n", "o">> /\ result.scores[k] = 3
    /\ \E k \in 1..Len(personas) : Failed(k) /\ result.scores[k] = 3

(***************************************************************************)
(* Properties of the aggregator, checked under SpecAgg.                    *)
(***************************************************************************)
Aggregated == pc \in {"recommend", "done"}

\* the number of results whose score lies in the set S
CountIn(S) == Cardinality({k \in 1..Len(all_results) : all_results[k].score \in S})

\* C6: each response is counted in exactly one bucket: adopt holds the
\* scores 4 and 5, mixed the score 3, not the scores 1 and 2, and the three
\* counts add up to the number of responses.
C6_BreakdownPartitions ==
    Aggregated =>
        /\ sentiment_breakdown.adopt.count = CountIn({4, 5})
        /\ sentiment_breakdown.mixed.count = CountIn({3})
        /\ sentiment_breakdown.not.count = CountIn({1, 2})
        /\ sentiment_breakdown.adopt.count + sentiment_breakdown.mixed.count
             + sentiment_breakdown.not.count = Len(all_results)

C6_Witness ==
    /\ Aggregated
    /\ Len(all_results) >= 3
    /\ sentiment_breakdown.adopt.count >= 1
    /\ sentiment_breakdown.mixed.count >= 1
    /\ sentiment_breakdown.not.count >= 1
    /\ CountIn({4}) >= 1

\* the sum of the counts of a dict of counters
RECURSIVE SumCounts(_)
SumCounts(d) ==
    IF DOMAIN d = {} THEN 0
    ELSE LET x == CHOOSE y \in DOMAIN d : TRUE
         IN  d[x] + SumCounts([y \in (DOMAIN d) \ {x} |-> d[y]])

\* C7: for every bucket and every allow-listed attribute the per-value counts
\* of property_distributions add up to the count of the bucket in the
\* sentiment breakdown (an absent attribute entry adds up to 0).
C7_DistributionSums ==
    Aggregated =>
        \A b \in Buckets :
            \A f \in 1..Len(allowed_fields) :
                SumCounts(DictGet(property_distributions[b], allowed_fields[f], EmptyDict))
                    = sentiment_breakdown[b].count

C7_Witness ==
    /\ Aggregated
    /\ sentiment_breakdown.adopt.count >= 2
    /\ CountIn({4}) >= 1
    /\ "gender" \in DOMAIN property_distributions.adopt
    /\ Cardinality(DOMAIN property_distributions.adopt["gender"]) >= 2
    /\ property_distributions.mixed = EmptyDict

\* the texts of the percentages 0.0 .. 100.0, and the value of such a text
PctTexts == [t \in 0..1000 |-> Format1f(t)]
TenthsOf(text) == CHOOSE t \in 0..1000 : PctTexts[t] = text

\* C8: for a non-empty list of scores the three percentages, read back from
\* their one-decimal texts, add up to a value within 0.1 of 100.0.
C8_PercentagesSum ==
    (Aggregated /\ Len(all_results) > 0) =>
        LET sum == TenthsOf(sentiment_breakdown.adopt.percentage)
                     + TenthsOf(sentiment_breakdown.mixed.percentage)
                     + TenthsOf(sentiment_breakdown.not.percentage)
        IN  sum \in 999..1001

C8_Witness ==
    /\ Aggregated
    /\ Len(all_results) = 3
    /\ sentiment_breakdown.adopt.percentage = "33.3"
    /\ sentiment_breakdown.mixed.percentage = "33.3"
    /\ sentiment_breakdown.not.percentage = "33.3"

\* C9: on an empty result list the aggregator returns a breakdown with count
\* 0 and percentage "0.0" in all three buckets.
C9_EmptyBreakdown ==
    (Aggregated /\ all_results = <<>>) =>
        sentiment_breakdown = [adopt |-> [count |-> 0, percentage |-> "0.0"],
                               mixed |-> [count |-> 0, percentage |-> "0.0"],
                               not |-> [count |-> 0, percentage |-> "0.0"]]

C9_Witness ==
    /\ pc = "recommend"
    /\ all_results = <<>>
    /\ sentiment_breakdown.adopt.percentage = "0.0"
    /\ sentiment_breakdown.adopt.count = 0

(***************************************************************************)
(* Properties of the orchestrator, checked under Spec.                     *)
(***************************************************************************)
\* C10: given an empty persona list run_simulation returns a result with
\* status failed and a populated error message.
C10_EmptyListFails ==
    (pc = "done" /\ personas = <<>>) =>
        (result.status = "failed" /\ result.error_message # <<>>)


(***************************************************************************)
(* The handler at the boundary of run_simulation and the recommendation.   *)
(***************************************************************************)
\* _generate_recommendation returned a value for the response it received
RecommendationSucceeded ==
    /\ rec_response # Unset
    /\ ~GenerateRecommendation(rec_response).raised

\* the run ended through the handler of lines 258-270: the profile formatting
\* raised (no recommendation call was issued) or _generate_recommendation raised
OuterException ==
    /\ pc = "done"
    /\ (rec_response = Unset \/ GenerateRecommendation(rec_response).raised)

\* C11: when an exception occurs in run_simulation outside the per-persona
\* try/except (profile formatting, aggregation, recommendation), the returned
\* result has status failed, empty response and score lists and the message
\* of the exception as error message.
C11_OuterFailureReported ==
    OuterException =>
        /\ result.status = "failed"
        /\ result.responses = <<>>
        /\ result.scores = <<>>
        /\ result.error_message # None

\* C12: whichever personas had a failing Phase 1 or Phase 2 call, all of them
\* included, a run whose recommendation step succeeded returns status
\* completed, one response per persona and no error message.
C12_PersonaFailuresKeepStatus ==
    (pc = "done" /\ RecommendationSucceeded) =>
        /\ result.status = "completed"
        /\ Len(result.responses) = Len(personas)
        /\ Len(result.scores) = Len(personas)
        /\ result.error_message = None

C12_Witness ==
    /\ pc = "done"
    /\ RecommendationSucceeded
    /\ Len(personas) >= 2
    /\ \A id \in 1..Len(personas) : Failed(id)
    /\ \E id \in 1..Len(personas) : llm[id].p1.raises
    /\ \E id \in 1..Len(personas) : ~llm[id].p1.raises /\ llm[id].p2.raises
    /\ result.status = "completed"

\* C13: when the text of the recommendation response is not parseable as
\* JSON, the title is the fixed fallback title and the recommendation is the
\* response text without its surrounding whitespace.
C13_UnparseableFallback ==
    (pc = "done" /\ rec_response # Unset /\ ~rec_response.raises) =>
        /\ rec_response.content = RecProseText =>
               /\ result.status = "completed"
               /\ result.title = <<"E", "x", "p", "e", "r", "i", "m", "e", "n", "t">>
               /\ result.recommendation = <<"S", "h", "i", "p", " ", "i", "t", ".">>
        /\ rec_response.content = RecTruncatedText =>
               /\ result.status = "completed"
               /\ result.title = <<"E", "x", "p", "e", "r", "i", "m", "e", "n", "t">>
               /\ result.recommendation = RecTruncatedText

C13_Witness ==
    /\ pc = "done"
    /\ rec_response = Returns(RecProseText)
    /\ Len(personas) >= 1
    /\ result.recommendation # rec_response.content

\* C14: for every text the recommendation call returns, valid JSON that is
\* not an object with the two keys included, parsing does not raise: the run
\* has a title and a recommendation and is not a failed run.
C14_AnyShapeParses ==
    (pc = "done" /\ rec_response # Unset /\ ~rec_response.raises) =>
        /\ result.status = "completed"
        /\ result.error_message = None
        /\ result.title # <<>>
        /\ result.recommendation # <<>>

(***************************************************************************)
(* The runSimulation mutation.                                             *)
(***************************************************************************)
\* the key of the provider that the settings select is None or empty
ConfiguredCredentialMissing ==
    IF settings.LLM_PROVIDER \in {"gemini", "Gemini"}
    THEN settings.GEMINI_API_KEY \in {<<>>, <<"">>}
    ELSE settings.OPENAI_API_KEY \in {<<>>, <<"">>}

ConfigurationErrors ==
    {"GEMINI_API_KEY is required for Gemini provider",
     "OPENAI_API_KEY is required for OpenAI provider"}

\* the mutation got as far as constructing the service
ReachedConstruction == "experiment_id" \in DOMAIN mlocal

\* C15: with the credential of the configured provider missing, the error is
\* raised when the service is constructed, before any LLM call, and leaves
\* the mutation as an exception, never as a result; with the credential
\* present no configuration error arises.
C15_CredentialCheckedAtConstruction ==
    /\ ConfiguredCredentialMissing =>
           /\ pc = "idle" /\ result = Unset
           /\ started = {} /\ p2_calls = {} /\ rec_response = Unset
           /\ mpc \notin {"running", "returned"}
           /\ (mpc = "raised" /\ ReachedConstruction) =>
                  /\ mresult.raised
                  /\ Len(mresult.message) = 2
                  /\ mresult.message[2] =
                         IF settings.LLM_PROVIDER \in {"gemini", "Gemini"}
                         THEN "GEMINI_API_KEY is required for Gemini provider"
                         ELSE "OPENAI_API_KEY is required for OpenAI provider"
    /\ ~ConfiguredCredentialMissing =>
           /\ ReachedConstruction => mpc # "raised"
           /\ mpc = "raised" => mresult.message[2] \notin ConfigurationErrors
           /\ result # Unset =>
                  \A m \in ConfigurationErrors : result.error_message # <<m>>

C15_Witness ==
    /\ mpc = "raised"
    /\ ReachedConstruction
    /\ settings.LLM_PROVIDER = "Gemini"
    /\ settings.GEMINI_API_KEY = <<"">>
    /\ settings.OPENAI_API_KEY = <<"sk-1">>
    /\ mresult.message = <<"Simulation failed: ",
                           "GEMINI_API_KEY is required for Gemini provider">>
    /\ started = {}

\* the personas of the requested group and the rows stored for the
\* experiment of the mutation
GroupPersonas == SelectSeq(db_personas, LAMBDA r : r.generation_job_id = 1)
StoredRows == SelectSeq(db_responses, LAMBDA r : r.experiment_id = mresult.experiment_id)

\* C16: after a mutation that reports status completed, the experiment has
\* one SurveyResponse row per persona of the group, as many as totalPersonas
\* and persona_count, each with a response text, a rating and the persona
\* identifier, and the stored experiment status is completed.
C16_RowsMatchPersonas ==
    (mpc = "returned" /\ mresult.status = "completed") =>
        /\ Len(StoredRows) = Len(GroupPersonas)
        /\ Len(StoredRows) = mresult.total_personas
        /\ Len(StoredRows) = db_experiments[mresult.experiment_id].persona_count
        /\ db_experiments[mresult.experiment_id].status = "completed"
        /\ \A k \in 1..Len(StoredRows) :
               /\ StoredRows[k].persona_id = GroupPersonas[k].id.uuid
               /\ StoredRows[k].likert \in 1..5
               /\ StoredRows[k].response_text # <<>>
               /\ \/ StoredRows[k].response_text = SentinelText
                  \/ /\ ~llm[k].p1.raises
                     /\ StoredRows[k].response_text = Strip(llm[k].p1.content)

C16_Witness ==
    /\ mpc = "returned"
    /\ mresult.status = "completed"
    /\ Len(StoredRows) = 2
    /\ StoredRows[1].response_text = SentinelText
    /\ StoredRows[2].response_text # SentinelText

\* the token is signed, not expired and carries a non-empty sub claim
TokenHasUserId(token) ==
    /\ token.kind = "signed"
    /\ "sub" \in DOMAIN token.claims
    /\ token.claims.sub \notin {<<>>, <<"">>}

\* C17: a mutation whose token does not decode to a user id fails with an
\* 'Invalid token' error; no Experiment row and no SurveyResponse row is
\* created and no LLM call is made.
C17_InvalidTokenRejected ==
    ~TokenHasUserId(request.token) =>
        /\ mpc \in {"start", "raised"}
        /\ mpc = "raised" =>
               mresult = [raised |-> TRUE,
                          message |-> <<"Simulation failed: ", "Invalid token">>]
        /\ db_experiments = EarlierExperiments
        /\ db_responses = EarlierResponses
        /\ pc = "idle" /\ result = Unset
        /\ started = {} /\ p2_calls = {} /\ rec_response = Unset

C17_Witness ==
    /\ mpc = "raised"
    /\ request.token.kind = "forged"
    /\ OwnJob \in db_jobs
    /\ Len(GroupPersonas) = MaxGroup
    /\ ~ConfiguredCredentialMissing
    /\ mresult.message[2] = "Invalid token"

(***************************************************************************)
(* The order of the calls and the stages of a run.                         *)
(***************************************************************************)
\* C18: a Phase 2 call is issued for a persona only after its Phase 1 call
\* returned, with the output of Phase 1 as argument, and never when Phase 1
\* raised.
C18_Phase2AfterPhase1 ==
    /\ \A c \in p2_calls :
           /\ ~llm[c.id].p1.raises
           /\ c.id \in started
           /\ c.text = Strip(llm[c.id].p1.content)
           /\ llm[c.id].p1.content = <<" ", "y", "e", "s", "\n">> => c.text = <<"y", "e", "s">>
    /\ \A k \in DOMAIN task_st :
           /\ task_st[k] \in {"created", "phase1"} =>
                  \A c \in p2_calls : c.id # batch[k].id
           /\ task_st[k] = "phase2" =>
                  [id |-> batch[k].id, text |-> task_text[k]] \in p2_calls
    /\ \A id \in finished :
           llm[id].p1.raises => \A c \in p2_calls : c.id # id

C18_Witness ==
    /\ \E c \in p2_calls :
           llm[c.id].p1.content = <<" ", "y", "e", "s", "\n">> /\ c.text = <<"y", "e", "s">>
    /\ \E id \in finished : llm[id].p1.raises /\ \A c \in p2_calls : c.id # id
    /\ \E k \in DOMAIN task_st : task_st[k] = "phase1"

\* C19: the aggregates exist only when every persona pipeline of every chunk
\* has finished, and the recommendation call is issued only when both
\* aggregates have been computed over all N results.
C19_StagesInOrder ==
    /\ (sentiment_breakdown # Unset \/ property_distributions # Unset) =>
           /\ started = 1..Len(personas)
           /\ finished = 1..Len(personas)
           /\ Len(all_results) = Len(personas)
           /\ task_st = <<>>
    /\ (pc = "recommend" \/ rec_response # Unset) =>
           /\ Len(all_results) = Len(personas)
           /\ sentiment_breakdown = CalculateSentimentBreakdown(all_results)
           /\ property_distributions = CalculatePropertyDistributions(all_results)

C19_Witness ==
    /\ pc = "recommend"
    /\ Len(personas) > batch_size
    /\ rec_response = Unset
    /\ sentiment_breakdown # Unset

\* C20: a run ends with status completed or failed and no other value, and
\* completed only when every response was generated, the aggregates were
\* computed and a recommendation was produced.
C20_TerminalStatus ==
    pc = "done" =>
        /\ result.status \in {"completed", "failed"}
        /\ result.status = "completed" =>
               /\ Len(result.responses) = Len(personas)
               /\ sentiment_breakdown # Unset
               /\ property_distributions # Unset
               /\ RecommendationSucceeded


(***************************************************************************)
(* Independence of the pipelines of a chunk.                               *)
(***************************************************************************)
\* the results that the personas and the outcomes of their calls determine
ExpectedResults ==
    [k \in 1..Len(personas) |-> ProcessPersonaComplete(personas[k], llm[personas[k].id])]

\* C21: with the outcomes of the LLM calls fixed, the results, scores,
\* breakdown and distributions of a run are the same whatever the
\* interleaving and the completion order of the pipelines of a chunk.
C21_InterleavingIndependent ==
    /\ \A k \in DOMAIN task_st :
           task_st[k] = "done" =>
               task_result[k] = ProcessPersonaComplete(batch[k], llm[batch[k].id])
    /\ BatchPhaseDone => all_results = ExpectedResults
    /\ sentiment_breakdown # Unset =>
           /\ sentiment_breakdown = CalculateSentimentBreakdown(ExpectedResults)
           /\ property_distributions = CalculatePropertyDistributions(ExpectedResults)
    /\ (pc = "done" /\ result.status = "completed") =>
           /\ result.responses = ResponsesOf(ExpectedResults)
           /\ result.scores = ScoresOf(ExpectedResults)
           /\ result.sentiment_breakdown = CalculateSentimentBreakdown(ExpectedResults)
           /\ result.property_distributions =
                  CalculatePropertyDistributions(ExpectedResults)

\* a later pipeline of the chunk finished with a genuine result while an
\* earlier one still waits for its Phase 1 call
C21_Witness ==
    /\ pc = "gather"
    /\ Len(batch) = batch_size
    /\ \E j, k \in DOMAIN task_st :
           /\ j < k
           /\ task_st[j] = "phase1"
           /\ task_st[k] = "done"
           /\ task_result[k].response_text # SentinelText
           /\ ~Failed(batch[j].id)


(***************************************************************************)
(* The rating parser.                                                      *)
(***************************************************************************)
\* the text scanned from position k, character by character
RECURSIVE FirstRating(_, _)
FirstRating(text, k) ==
    IF k > Len(text) THEN 3
    ELSE CASE text[k] = "1" -> 1
           [] text[k] = "2" -> 2
           [] text[k] = "3" -> 3
           [] text[k] = "4" -> 4
           [] text[k] = "5" -> 5
           [] OTHER -> FirstRating(text, k + 1)

\* C22: the rating of a Phase 2 text is the value of its first character in
\* '1'..'5', every other character (0, 6..9 included) being skipped, and 3
\* when the text has no such character.
C22_FirstLikertDigit ==
    /\ \A k \in DOMAIN task_st :
           (task_st[k] = "done" /\ ~Failed(batch[k].id)) =>
               task_result[k].score = FirstRating(llm[batch[k].id].p2.content, 1)
    /\ \A k \in DOMAIN all_results :
           ~Failed(all_results[k].persona_id) =>
               all_results[k].score = FirstRating(llm[all_results[k].persona_id].p2.content, 1)

C22_Witness ==
    /\ Len(all_results) = 1
    /\ llm[1].p2.content = <<"7", "5", "1">>
    /\ all_results[1].score = 5


(***************************************************************************)
(* The allow-list of the aggregator and the fields of the producer.        *)
(***************************************************************************)
\* C23: every name of the allow-list is a field the producer emits for every
\* persona, so when every persona carries all mandatory fields no
\* allow-listed attribute is counted under "N/A".
C23_AllowListEmitted ==
    property_distributions # Unset =>
        /\ \A f \in 1..Len(allowed_fields) : allowed_fields[f] \in MandatoryFields
        /\ (\A k \in 1..Len(all_results) :
                MandatoryFields \subseteq DOMAIN all_results[k].persona_data) =>
               \A b \in Buckets :
                   \A f \in 1..Len(allowed_fields) :
                       "N/A" \notin DOMAIN DictGet(property_distributions[b],
                                                  allowed_fields[f], EmptyDict)


(***************************************************************************)
(* Termination.                                                            *)
(***************************************************************************)
\* the run issues a call for persona id that never completes
Stalled(id) ==
    /\ "stalls" \in DOMAIN llm[id]
    /\ \/ llm[id].stalls = "p1"
       \/ llm[id].stalls = "p2" /\ ~llm[id].p1.raises

SomeStalled == \E id \in DOMAIN llm : Stalled(id)

\* C24: when every LLM call completes the run eventually returns a result
\* with a terminal status; when a call of chunk k never completes, no
\* pipeline of a later chunk is ever started and the run never returns.
C24_TerminatesIffCallsComplete ==
    /\ <>(SomeStalled \/ (pc = "done" /\ result.status \in {"completed", "error"}))
    /\ [](\A id \in DOMAIN llm :
              Stalled(id) =>
                  /\ pc # "done"
                  /\ result = Unset
                  /\ \A j \in started : ChunkOf(j) <= ChunkOf(id))

\* every other pipeline of the first chunk has finished and gather still
\* waits for the call that never completes
C24_Witness ==
    /\ pc = "gather"
    /\ Len(personas) > batch_size
    /\ Stalled(1)
    /\ task_st[1] = "phase1"
    /\ \A k \in 2..Len(task_st) : task_st[k] = "done"


(***************************************************************************)
(* The pairing of responses and scores.                                    *)
(***************************************************************************)
\* C25: in every returned result, of either status, responses and scores
\* have the same length and scores[k] is the rating derived for the persona
\* of responses[k].
C25_ScoresAligned ==
    pc = "done" =>
        /\ Len(result.responses) = Len(result.scores)
        /\ result.status # "completed" => result.responses = <<>>
        /\ \A k \in 1..Len(result.responses) :
               LET id == result.responses[k].persona_id
               IN  /\ result.responses[k].persona_id = personas[k].id
                   /\ result.scores[k] =
                          IF Failed(id) THEN 3 ELSE FirstRating(llm[id].p2.content, 1)
                   /\ result.responses[k].response_text =
                          IF Failed(id) THEN SentinelText ELSE Strip(llm[id].p1.content)

C25_Witness ==
    /\ pc = "done"
    /\ result.status = "completed"
    /\ Len(result.scores) = MaxSmall
    /\ result.scores[1] # result.scores[MaxSmall]
    /\ \E k \in 1..MaxSmall : result.responses[k].response_text = SentinelText


(***************************************************************************)
(* The final status of a cohort generation.                                *)
(***************************************************************************)
\* C26: a generation workflow ends with status completed only if no batch
\* failed; when a batch fails the final state has status error and carries
\* the error message, and the background task stores that status on the job.
C26_CompletedOnlyOnSuccess ==
    \A w \in DOMAIN cohort.wf :
        LET wf == cohort.wf[w]
        IN  /\ (wf.pc \in {"ended", "stored"} /\ wf.failed) =>
                   /\ wf.state.status = "error"
                   /\ wf.state.error_message # None
            /\ (wf.pc = "stored" /\ wf.failed) =>
                   \A j \in db_jobs :
                       j.id = wf.job_id =>
                           j.status = "error" /\ j.error_message = wf.state.error_message


(***************************************************************************)
(* The names of the generation jobs of a user.                             *)
(***************************************************************************)
\* C30: after any interleaving of generateCustomCohort requests of one user
\* no two generation jobs of that user have the same persona_group.
C30_GroupNamesUnique ==
    \A j1 \in db_jobs : \A j2 \in db_jobs :
        (j1.id # j2.id /\ j1.user_id = j2.user_id) =>
            j1.persona_group # j2.persona_group


(***************************************************************************)
(* The stored status of an experiment whose mutation has finished.         *)
(***************************************************************************)
\* C27: once the runSimulation mutation has committed the experiment with
\* status in_progress, on every path by which the mutation then finishes,
\* by a result or by an exception, the stored status is a final status and
\* not in_progress.
C27_ExperimentLeavesInProgress ==
    (mpc \in {"returned", "raised"} /\ ReachedConstruction) =>
        db_experiments[mlocal.experiment_id].status \notin {"draft", "in_progress"}


(***************************************************************************)
(* The chat stream of api/streaming.py: generate_stream consumes the       *)
(* fragments of PersonaChatChain.chat_with_persona_stream and emits one    *)
(* server-sent event per yield.  An event is the dictionary that           *)
(* json.dumps serialises.                                                  *)
(***************************************************************************)
\* streaming.py lines 81-85
ContentEvent(chunk_content, conversation_id) ==
    [content |-> chunk_content, conversation_id |-> conversation_id, is_final |-> FALSE]

\* streaming.py lines 90-94
FinalEvent(conversation_id) ==
    [content |-> "", conversation_id |-> conversation_id, is_final |-> TRUE]

\* a variant of ErrorEvent: the error event does not close the stream
ErrorEventNotFinal(message, conversation_id) ==
    [error |-> message, conversation_id |-> conversation_id, is_final |-> FALSE]

\* streaming.py lines 98-102
ErrorEvent(message, conversation_id) ==
    [error |-> message, conversation_id |-> conversation_id, is_final |-> TRUE]

\* the content of the chunks the LLM delivers; an empty chunk is skipped
ChunkContents == {"a", "b", ""}

ChunkLists == UNION {[1..n -> ChunkContents] : n \in 0..MaxFragments}

\* where the token stream raises, if it does
ChatFailures == {"never", "setup", "stream", "save"}

InitChat ==
    /\ \E chunks \in ChunkLists : \E fails \in ChatFailures :
       \E conversation_id \in {"c1", "c2"} :
           chat = [conversation_id |-> conversation_id, chunks |-> chunks,
                   fails |-> fails, pc |-> "start", pos |-> 1, events |-> <<>>]
    /\ settings \in {DefaultSettings,
                     [LLM_PROVIDER |-> "openai", OPENAI_API_KEY |-> None,
                      GEMINI_API_KEY |-> None]}
    /\ cohort = Unset
    /\ request = Unset
    /\ db_jobs = {}
    /\ db_personas = <<>>
    /\ db_experiments = <<>>
    /\ db_responses = <<>>
    /\ mpc = "none"
    /\ mlocal = Unset
    /\ mresult = Unset
    /\ personas = <<>>
    /\ llm = <<>>
    /\ pc = "idle"
    /\ i = 0
    /\ batch = <<>>
    /\ task_st = <<>>
    /\ task_text = <<>>
    /\ task_result = <<>>
    /\ all_results = <<>>
    /\ sentiment_breakdown = Unset
    /\ property_distributions = Unset
    /\ result = Unset
    /\ started = {}
    /\ finished = {}
    /\ p2_calls = {}
    /\ rec_response = Unset

\* what the chat actions leave alone
ChatFrame ==
    /\ UNCHANGED <<request, settings, db_jobs, db_personas, db_experiments, db_responses,
                   mpc, mlocal, mresult, cohort>>
    /\ UNCHANGED svars

\* the handler of streaming.py lines 97-103 emits the error event and the
\* generator ends
ChatRaise(message) ==
    chat' = [chat EXCEPT !.pc = "closed",
                         !.events = Append(@, ErrorEvent(message, chat.conversation_id))]

\* streaming.py line 70 and ai_service.py lines 199-252: the chain is
\* constructed, the checkpointer set up and the conversation state saved
ChatOpen ==
    /\ chat.pc = "start"
    /\ LET created == CreateLlm(settings)
       IN  IF created.raised THEN ChatRaise(created.message)
           ELSE IF chat.fails = "setup" THEN ChatRaise("connection failed")
           ELSE chat' = [chat EXCEPT !.pc = "streaming"]
    /\ ChatFrame

\* ai_service.py lines 256-259 and streaming.py lines 72-87: the LLM delivers
\* a chunk; a chunk with content is yielded and sent as an event
ChatChunk ==
    /\ chat.pc = "streaming"
    /\ chat.pos <= Len(chat.chunks)
    /\ LET chunk_content == chat.chunks[chat.pos]
       IN  IF chunk_content # ""
           THEN chat' = [chat EXCEPT
                            !.pos = @ + 1,
                            !.events = Append(@, ContentEvent(chunk_content,
                                                              chat.conversation_id))]
           ELSE chat' = [chat EXCEPT !.pos = @ + 1]
    /\ ChatFrame

\* ai_service.py line 256: the token stream raises part-way or is exhausted
ChatStreamEnds ==
    /\ chat.pc = "streaming"
    /\ chat.pos > Len(chat.chunks)
    /\ IF chat.fails = "stream" THEN ChatRaise("ProviderError")
       ELSE chat' = [chat EXCEPT !.pc = "saving"]
    /\ ChatFrame

\* ai_service.py lines 262-264 and streaming.py lines 89-95: the response is
\* saved, the fragment generator ends and the final event is sent
ChatFinish ==
    /\ chat.pc = "saving"
    /\ IF chat.fails = "save" THEN ChatRaise("connection failed")
       ELSE chat' = [chat EXCEPT !.pc = "closed",
                                 !.events = Append(@, FinalEvent(chat.conversation_id))]
    /\ ChatFrame

NextChat ==
    \/ ChatOpen
    \/ ChatChunk
    \/ ChatStreamEnds
    \/ ChatFinish

SpecChat == InitChat /\ [][NextChat]_vars

\* the fragments the fragment generator has yielded: the chunks with content
RECURSIVE Fragments(_, _)
Fragments(chunks, n) ==
    IF n = 0 THEN <<>>
    ELSE IF chunks[n] # "" THEN Append(Fragments(chunks, n - 1), chunks[n])
    ELSE Fragments(chunks, n - 1)

\* the events with is_final true
FinalEvents == {k \in 1..Len(chat.events) : chat.events[k].is_final}

\* C28: every closed chat stream has exactly one event with is_final true,
\* and it is the last one, whether the token stream ended normally or
\* raised; every event before it has is_final false, and the content events
\* carry the fragments in the order they were produced.
C28_OneFinalEventLast ==
    LET events == chat.events
        content_events == SelectSeq(events, LAMBDA e : ~e.is_final)
        produced == Fragments(chat.chunks, chat.pos - 1)
    IN  /\ \A e \in {events[k] : k \in 1..Len(events)} :
               e.conversation_id = chat.conversation_id
        /\ \A k \in 1..Len(content_events) : "content" \in DOMAIN content_events[k]
        /\ Len(content_events) = Len(produced)
        /\ \A k \in 1..Len(produced) : content_events[k].content = produced[k]
        /\ chat.pc # "closed" => FinalEvents = {}
        /\ chat.pc = "closed" =>
               /\ Len(events) >= 1
               /\ FinalEvents = {Len(events)}
               /\ chat.fails = "never" /\ ~CreateLlm(settings).raised =>
                      events[Len(events)] = FinalEvent(chat.conversation_id)

\* the token stream raised after two fragments and an empty chunk
C28_Witness ==
    /\ chat.pc = "closed"
    /\ chat.fails = "stream"
    /\ chat.chunks = <<"a", "", "b">>
    /\ Len(chat.events) = 3
    /\ chat.events[1] = ContentEvent("a", chat.conversation_id)
    /\ chat.events[2] = ContentEvent("b", chat.conversation_id)
    /\ chat.events[3] = ErrorEvent("ProviderError", chat.conversation_id)


(***************************************************************************)
(* The guest mutations of graphql/mutations/simulation.py: a client runs   *)
(* run_guest_simulation and passes the personas and responses it got back  *)
(* to save_guest_simulation.                                               *)
(***************************************************************************)
\* str(e) of the exceptions of the guest mutations
DefaultGroupNotFound == <<"Default persona group 'General Audience' not found">>
NoDefaultPersonasFound == <<"No default personas found">>
KeyErrorScore == <<"'score'">>

\* line 209: the exception that leaves run_guest_simulation
GuestFailed(message) ==
    [raised |-> TRUE, message |-> <<"Guest simulation failed: ">> \o message]

\* line 273: the exception that leaves save_guest_simulation
SaveFailed(message) ==
    [raised |-> TRUE, message |-> <<"Failed to save guest simulation: ">> \o message]

\* lines 151-156: the default jobs of the group General Audience
DefaultJobs(jobs) ==
    {j \in jobs : j.persona_group = "General Audience" /\ j.user_id = None}

\* jwt_handler.py lines 34-39
GetUserIdFromToken(token) ==
    LET payload == DecodeToken(token)
    IN  IF FalsyDict(payload) THEN None ELSE DictGet(payload, "sub", None)

\* lines 248-257: one row per response, the rating read from its key score
GuestSurveyRows(responses, experiment_id, user_id) ==
    [k \in 1..Len(responses) |->
        [experiment_id |-> experiment_id,
         persona_id |-> responses[k].persona_id,
         user_id |-> user_id,
         response_text |-> responses[k].response_text,
         likert |-> responses[k].score,
         response_metadata |-> [persona_data |-> responses[k].persona_data]]]

InitGuest ==
    /\ \E token \in Tokens :
           request = [token |-> token,
                      guest_data |-> [idea_text |-> "idea", question_text |-> "question"]]
    /\ settings \in {DefaultSettings,
                     [LLM_PROVIDER |-> "openai", OPENAI_API_KEY |-> None,
                      GEMINI_API_KEY |-> None]}
    /\ db_jobs \in JobTables
    /\ \E n \in 0..MaxGroup :
         \E s \in {0, 1}, b \in 0..(Len(Outcomes) - 1) :
            /\ db_personas = PersonaTable(n, 0)
            /\ llm = OutcomeList(n, s, b)
    /\ db_experiments = EarlierExperiments
    /\ db_responses = EarlierResponses
    /\ mpc = "guest_start"
    /\ mlocal = Unset
    /\ mresult = Unset
    /\ cohort = Unset
    /\ chat = Unset
    /\ personas = <<>>
    /\ pc = "idle"
    /\ i = 0
    /\ batch = <<>>
    /\ task_st = <<>>
    /\ task_text = <<>>
    /\ task_result = <<>>
    /\ all_results = <<>>
    /\ sentiment_breakdown = Unset
    /\ property_distributions = Unset
    /\ result = Unset
    /\ started = {}
    /\ finished = {}
    /\ p2_calls = {}
    /\ rec_response = Unset

\* lines 146-190: the default personas are loaded, the service is
\* constructed and run_simulation is called
GuestLoadAndCall ==
    /\ mpc = "guest_start"
    /\ LET jobs == DefaultJobs(db_jobs)
           rows == IF Cardinality(jobs) = 1
                   THEN PersonasOfJob(db_personas, (CHOOSE j \in jobs : TRUE).id)
                   ELSE <<>>
           created == CreateLlm(settings)
           failure == IF Cardinality(jobs) > 1 THEN MultipleResultsFound
                      ELSE IF jobs = {} THEN DefaultGroupNotFound
                      ELSE IF rows = <<>> THEN NoDefaultPersonasFound
                      ELSE IF created.raised THEN <<created.message>>
                      ELSE <<>>
       IN  IF failure # <<>>
           THEN /\ mresult' = GuestFailed(failure)
                /\ mpc' = "guest_raised"
                /\ UNCHANGED <<personas, pc, mlocal>>
           ELSE /\ personas' = PersonasData(rows)
                /\ pc' = "loop"
                /\ mlocal' = [personas |-> rows]
                /\ mpc' = "guest_running"
                /\ UNCHANGED mresult
    /\ UNCHANGED <<request, settings, db_jobs, db_personas, db_experiments, db_responses>>
    /\ UNCHANGED <<llm, i, batch, task_st, task_text, task_result, all_results,
                   sentiment_breakdown, property_distributions, result, started, finished,
                   p2_calls, rec_response>>
    /\ UNCHANGED xvars

\* lines 192-203: the result of the service is returned with the personas
\* and the responses; the scores of the result are not part of it
GuestReturn ==
    /\ mpc = "guest_running"
    /\ pc = "done"
    /\ mresult' = [raised |-> FALSE,
                   experiment_id |-> "guest-simulation",
                   status |-> result.status,
                   total_processed |-> Len(result.responses),
                   total_personas |-> Len(mlocal.personas),
                   sentiment_breakdown |-> result.sentiment_breakdown,
                   property_distributions |-> result.property_distributions,
                   recommendation |-> result.recommendation,
                   title |-> result.title,
                   personas |-> personas,
                   responses |-> result.responses]
    /\ mpc' = "guest_returned"
    /\ UNCHANGED <<request, settings, db_jobs, db_personas, db_experiments, db_responses,
                   mlocal>>
    /\ UNCHANGED svars
    /\ UNCHANGED xvars

\* lines 218-245: the client sends the returned result back with a token;
\* the experiment is added with status completed and committed
SaveCreateExperiment ==
    /\ mpc = "guest_returned"
    /\ LET user_id == GetUserIdFromToken(request.token)
           guest_data == [idea_text |-> request.guest_data.idea_text,
                          question_text |-> request.guest_data.question_text,
                          personas |-> mresult.personas,
                          responses |-> mresult.responses,
                          sentiment_breakdown |-> mresult.sentiment_breakdown,
                          property_distributions |-> mresult.property_distributions,
                          recommendation |-> mresult.recommendation,
                          title |-> mresult.title]
           experiment == [id |-> Len(db_experiments) + 1,
                          user_id |-> user_id[1],
                          idea_text |-> guest_data.idea_text,
                          question_text |-> guest_data.question_text,
                          status |-> "completed",
                          persona_count |-> Len(guest_data.personas),
                          title |-> Some(guest_data.title),
                          results_summary |->
                              [sentiment_breakdown |-> guest_data.sentiment_breakdown,
                               property_distributions |-> guest_data.property_distributions],
                          recommended_next_step |-> Some(guest_data.recommendation)]
       IN  IF Falsy(user_id)
           THEN /\ mresult' = SaveFailed(InvalidToken)
                /\ mpc' = "save_raised"
                /\ UNCHANGED <<db_experiments, mlocal>>
           ELSE /\ db_experiments' = Append(db_experiments, experiment)
                /\ mlocal' = [user_id |-> user_id, guest_data |-> guest_data,
                              experiment_id |-> experiment.id]
                /\ mpc' = "save_created"
                /\ UNCHANGED mresult
    /\ UNCHANGED <<request, settings, db_jobs, db_personas, db_responses>>
    /\ UNCHANGED svars
    /\ UNCHANGED xvars

\* lines 247-273: a SurveyResponse is built per response; a response without
\* the key score raises KeyError and nothing of the loop is committed
SaveStoreResponses ==
    /\ mpc = "save_created"
    /\ LET guest_data == mlocal.guest_data
       IN  IF \E k \in 1..Len(guest_data.responses) :
                  "score" \notin DOMAIN guest_data.responses[k]
           THEN /\ mresult' = SaveFailed(KeyErrorScore)
                /\ mpc' = "save_raised"
                /\ UNCHANGED db_responses
           ELSE /\ db_responses' =
                       db_responses \o GuestSurveyRows(guest_data.responses,
                                                       mlocal.experiment_id,
                                                       mlocal.user_id[1])
                /\ mresult' = [raised |-> FALSE,
                               experiment_id |-> mlocal.experiment_id,
                               status |-> "completed",
                               total_processed |-> Len(guest_data.responses),
                               total_personas |-> Len(guest_data.personas),
                               sentiment_breakdown |-> guest_data.sentiment_breakdown,
                               property_distributions |-> guest_data.property_distributions,
                               recommendation |-> guest_data.recommendation,
                               title |-> guest_data.title]
                /\ mpc' = "save_returned"
    /\ UNCHANGED <<request, settings, db_jobs, db_personas, db_experiments, mlocal>>
    /\ UNCHANGED svars
    /\ UNCHANGED xvars

NextGuest ==
    \/ GuestLoadAndCall
    \/ GuestReturn
    \/ SaveCreateExperiment
    \/ SaveStoreResponses
    \/ BeginBatch
    \/ \E k \in DOMAIN task_st : StartTask(k)
    \/ \E k \in DOMAIN task_st : Phase1Return(k)
    \/ \E k \in DOMAIN task_st : Phase2Return(k)
    \/ GatherReturn
    \/ Aggregate
    \/ RecommendReturn

SpecGuest == InitGuest /\ [][NextGuest]_vars

\* C29: when the personas and responses returned by run_guest_simulation are
\* passed to save_guest_simulation with a valid token, the save returns and
\* has stored one SurveyResponse per response, carrying the persona of the
\* response and the rating the run derived for it.
C29_GuestResultCanBeSaved ==
    (mpc \in {"save_returned", "save_raised"} /\ "experiment_id" \in DOMAIN mlocal) =>
        LET rows == SelectSeq(db_responses,
                              LAMBDA row : row.experiment_id = mlocal.experiment_id)
        IN  /\ mpc = "save_returned"
            /\ Len(rows) = Len(result.responses)
            /\ \A k \in 1..Len(rows) :
                   /\ rows[k].persona_id = result.responses[k].persona_id
                   /\ rows[k].likert = result.scores[k]


====
